---- MODULE Spec2Model ----
(***************************************************************************)
(* ContextWeaver: incremental scanner, row store (files / files_fts),      *)
(* vector store with monotonic upsert, and the per-project file lock.      *)
(*                                                                         *)
(* The specifications share the variables:                                 *)
(*   Spec       one process running scan() against a changing file system, *)
(*              with a crash possible between any two store operations;    *)
(*   SpecVS     calls of VectorStore.upsertFile and batchUpsertFiles, with *)
(*              a crash possible between the table operations;             *)
(*   SpecLock   several processes running withLock(projectId, op, fn);     *)
(*   SpecDim    scans under a changing embedding dimension;                *)
(*   SpecNws    calls of SourceAdapter.nws;                                *)
(*   SpecSplit  calls of SemanticSplitter.split and splitPlainText;        *)
(*   SpecCutoff calls of SearchService.applySmartCutoff;                   *)
(*   SpecPack   calls of ContextPacker.mergeAndSlice and pack;             *)
(*   SpecQuery  hybrid recall and fusion of SearchService;                 *)
(*   SpecProcess calls of processFile;                                     *)
(*   SpecRerank the retry loop of RerankerClient.rerank;                   *)
(*   SpecExpand calls of GraphExpander.expand;                             *)
(*   SpecCache  scans and queries of one process over the cached vector    *)
(*              stores and graph expanders;                                *)
(*   SpecUpsert batchUpsertFiles against upsertFile file by file.          *)
(***************************************************************************)
EXTENDS Integers, FiniteSets, Sequences, TLC

VARIABLES
    disk,       \* file system: path -> NoFile or [c, mtime]
    rows,       \* table files: path -> NoRow or [hash, mtime, size, content, vih]
    fts,        \* table files_fts: set of paths
    vec,        \* vector table chunks: record key -> number of stored copies
    pc,         \* position of the scanning process inside scan()
    opts,       \* options of the running scan: [force, vectorIndex]
    scanned,    \* scannedPaths of the running scan
    results,    \* ProcessResult per path of the running scan
    deleted,    \* deletedPaths of the running scan
    healing,    \* healingFiles of the running scan (paths)
    hist,       \* history: what happened since the previous scan began
    vscall,     \* the VectorStore call in progress (SpecVS)
    lockFile,   \* index.lock: NoLock or [pid, timestamp]
    now,        \* Date.now(), in ms
    ticks,      \* how many times the clock has advanced
    alive,      \* pid -> the process exists
    lk,         \* pid -> its position and locals inside withLock
    meta,       \* metadata.embedding_dimensions, 0 when the key is absent
    dims,       \* the configured embedding dimensions of the running scan, 0 outside
    vdim,       \* the vector table by file version and vector dimension
    arg,        \* the arguments of a pure function call (SpecNws and later)
    ret         \* what the call returned, NoRet before it

dataVars == <<disk, rows, fts, vec>>
scanVars == <<pc, opts, scanned, results, deleted, healing>>
lockVars == <<lockFile, now, ticks, alive, lk>>
dimVars == <<meta, dims, vdim>>
fnVars == <<arg, ret>>
vars == <<disk, rows, fts, vec, pc, opts, scanned, results, deleted, healing, hist,
          vscall, lockFile, now, ticks, alive, lk, meta, dims, vdim, arg, ret>>

----------------------------------------------------------------------------
(* Bounds and domains *)

Paths == {"f1", "f2"}
Contents == {"a", "b", "x", "e"}
MaxMtime == 2
MaxCopies == 2
MaxChunks == 2

Mtimes == 1..MaxMtime

\* Contents: "a" splits into two chunks, "b" into one, "e" into none, and "x"
\* is a file above MAX_FILE_SIZE.
\* What the file system may hold at a path: f1 takes "a", "b", "x" and every
\* mtime, f2 is one fixed file that comes and goes.
ContentsAt(p) == IF p = "f1" THEN {"a", "b", "x"} ELSE {"b"}
MtimesAt(p) == IF p = "f1" THEN Mtimes ELSE {1}
ChunkIdx == 0..(MaxChunks - 1)

NoFile == [c |-> "none", mtime |-> 0]
NoRow == [hash |-> "", mtime |-> 0, size |-> 0, content |-> "NULL", vih |-> "NULL"]
NULL == "NULL"

MAX_FILE_SIZE == 102400

\* sha256 of the decoded content: one digest per content, no collisions
sha256(c) ==
    IF c = "a" THEN "ha" ELSE IF c = "b" THEN "hb" ELSE IF c = "e" THEN "he"
    ELSE IF c = "z" THEN "hz" ELSE "hx"
Hashes == {sha256(c) : c \in Contents}

\* stat.size of a file holding content c
SizeOf(c) == IF c = "x" THEN 200000 ELSE 10

\* content.includes('\0'): "z" is a content with a NUL character (no path of
\* the scanned file system holds it)
HasNul(c) == c = "z"

\* chunks.length produced by the splitter for content c
NumChunks(c) == IF c = "a" THEN 2 ELSE IF c = "b" THEN 1 ELSE 0


\* getLanguage(relPath), by the extension
getLanguage(p) ==
    IF p \in {"a.json", "package-lock.json", "node_modules/a.json"} THEN "json" ELSE "typescript"

\* shouldSkipJson(relPath): the path ends in -lock.json or package-lock.json,
\* or contains node_modules/
shouldSkipJson(p) == p \in {"package-lock.json", "node_modules/a.json", "node_modules/a.ts"}

RecKeys == [file_path : Paths, file_hash : Hashes, chunk_index : ChunkIdx]

Result(st, h, c, n, m, sz) ==
    [status |-> st, hash |-> h, content |-> c, nchunks |-> n, mtime |-> m, size |-> sz]
NoResult == Result("none", "", NULL, 0, 0, 0)

----------------------------------------------------------------------------
(* scanner/processor.ts *)

\* processFile with the binary check moved before the (mtime, size) check
processFile_NulFirst(p, f, known) ==
    IF f = NoFile THEN Result("error", "", NULL, 0, 0, 0)
    ELSE IF SizeOf(f.c) > MAX_FILE_SIZE
         THEN Result("skipped", "", NULL, 0, f.mtime, SizeOf(f.c))
    ELSE IF HasNul(f.c)
         THEN Result("skipped", "", NULL, 0, f.mtime, SizeOf(f.c))
    ELSE IF known # NoRow /\ known.mtime = f.mtime /\ known.size = SizeOf(f.c)
         THEN Result("unchanged", known.hash, NULL, 0, f.mtime, SizeOf(f.c))
    ELSE IF known # NoRow /\ known.hash = sha256(f.c)
         THEN Result("unchanged", sha256(f.c), f.c, 0, f.mtime, SizeOf(f.c))
    ELSE IF getLanguage(p) = "json" /\ shouldSkipJson(p)
         THEN Result("skipped", sha256(f.c), NULL, 0, f.mtime, SizeOf(f.c))
    ELSE Result(IF known # NoRow THEN "modified" ELSE "added",
                sha256(f.c), f.c, NumChunks(f.c), f.mtime, SizeOf(f.c))

\* processFile: f is the file as stat/read find it, known the knownFiles entry
processFile(p, f, known) ==
    IF f = NoFile THEN Result("error", "", NULL, 0, 0, 0)
    ELSE IF SizeOf(f.c) > MAX_FILE_SIZE
         THEN Result("skipped", "", NULL, 0, f.mtime, SizeOf(f.c))
    ELSE IF known # NoRow /\ known.mtime = f.mtime /\ known.size = SizeOf(f.c)
         THEN Result("unchanged", known.hash, NULL, 0, f.mtime, SizeOf(f.c))
    ELSE IF HasNul(f.c)
         THEN Result("skipped", "", NULL, 0, f.mtime, SizeOf(f.c))
    ELSE IF known # NoRow /\ known.hash = sha256(f.c)
         THEN Result("unchanged", sha256(f.c), f.c, 0, f.mtime, SizeOf(f.c))
    ELSE IF getLanguage(p) = "json" /\ shouldSkipJson(p)
         THEN Result("skipped", sha256(f.c), NULL, 0, f.mtime, SizeOf(f.c))
    ELSE Result(IF known # NoRow THEN "modified" ELSE "added",
                sha256(f.c), f.c, NumChunks(f.c), f.mtime, SizeOf(f.c))

----------------------------------------------------------------------------
(* db/index.ts, search/fts.ts: the row store *)

\* the query without its WHERE clause
getFilesNeedingVectorIndex_NoWhere(r) == {p \in Paths : r[p] # NoRow}

\* getFilesNeedingVectorIndex
getFilesNeedingVectorIndex(r) ==
    {p \in Paths : r[p] # NoRow /\ (r[p].vih = NULL \/ r[p].vih # r[p].hash)}

\* getAllPaths
getAllPaths(r) == {p \in Paths : r[p] # NoRow}

\* the INSERT ... ON CONFLICT(path) DO UPDATE of batchUpsert, for one item:
\* the statement names path, hash, mtime, size, content, language only, so a
\* new row gets vector_index_hash NULL and an existing row keeps its value
upsertRow(old, item) ==
    [hash |-> item.hash, mtime |-> item.mtime, size |-> item.size,
     content |-> item.content, vih |-> IF old = NoRow THEN NULL ELSE old.vih]

\* batchUpsert, first transaction: the files rows
batchUpsert(r, toAdd, res) ==
    [p \in Paths |-> IF p \in toAdd THEN upsertRow(r[p], res[p]) ELSE r[p]]

\* batchUpsertFileFts: delete + insert per item, one transaction
batchUpsertFileFts(f, ftsFiles) == f \cup ftsFiles

\* batchUpdateMtime: UPDATE files SET mtime = ? WHERE path = ?
batchUpdateMtime(r, items, res) ==
    [p \in Paths |-> IF p \in items /\ r[p] # NoRow
                     THEN [r[p] EXCEPT !.mtime = res[p].mtime] ELSE r[p]]

\* batchDelete, first transaction: DELETE FROM files WHERE path = ?
batchDelete(r, paths) == [p \in Paths |-> IF p \in paths THEN NoRow ELSE r[p]]

\* batchDeleteFileFts
batchDeleteFileFts(f, paths) == f \ paths

\* clear: DELETE FROM files
clear(r) == [p \in Paths |-> NoRow]

\* batchUpdateVectorIndexHash: UPDATE files SET vector_index_hash = ? WHERE path = ?
batchUpdateVectorIndexHash(r, items, res) ==
    [p \in Paths |-> IF p \in items /\ r[p] # NoRow
                     THEN [r[p] EXCEPT !.vih = res[p].hash] ELSE r[p]]

----------------------------------------------------------------------------
(* vectorStore: table chunks as a bag of records *)

EmptyTable == [k \in RecKeys |-> 0]

\* the ChunkRecords the indexer builds for a file: one per chunk
recordsOf(p, h, n) == {k \in RecKeys : k.file_path = p /\ k.file_hash = h /\ k.chunk_index < n}

\* table.add(records) (ensureTable creates the table from the same records)
tableAdd(v, recs) == [k \in RecKeys |-> IF k \in recs THEN v[k] + 1 ELSE v[k]]

\* the delete without its file_path condition
deleteStale_AnyPath(v, files) ==
    [k \in RecKeys |-> IF \E f \in files : k.file_hash # f[2] THEN 0 ELSE v[k]]

\* table.delete("file_path = p AND file_hash != h" OR ...), files = {<<p, h>>}
deleteStale(v, files) ==
    [k \in RecKeys |-> IF \E f \in files : k.file_path = f[1] /\ k.file_hash # f[2]
                       THEN 0 ELSE v[k]]

\* deleteFiles / deleteFile: table.delete("file_path = p" OR ...)
deleteFiles(v, paths) == [k \in RecKeys |-> IF k.file_path \in paths THEN 0 ELSE v[k]]

\* room for one more copy of each record (bound of the model)
CanAdd(v, recs) == \A k \in recs : v[k] < MaxCopies

\* countRows
count(v) == LET S == {<<k, i>> \in RecKeys \X (1..MaxCopies) : i <= v[k]} IN Cardinality(S)

----------------------------------------------------------------------------
(* vectorStore: upsertFile and batchUpsertFiles, one action per table call.
   A file of a call is [path, c]: its hash is sha256(c) and its records are
   the ChunkRecords of the chunks of c. *)

BATCH_FILES == 50
BATCH_RECORDS == 5000

NoCall == [op |-> "idle", batches |-> <<>>, bi |-> 0, step |-> "idle"]

fileRecords(f) == recordsOf(f.path, sha256(f.c), NumChunks(f.c))
SeqRange(q) == {q[i] : i \in 1..Len(q)}
batchRecords(batch) == UNION {fileRecords(f) : f \in SeqRange(batch)}
batchPaths(batch) == {f.path : f \in SeqRange(batch)}
batchVersions(batch) == {<<f.path, sha256(f.c)>> : f \in SeqRange(batch)}

\* batchUpsertFiles, lines 161-181: the sub-batches of the file list
RECURSIVE buildBatches(_, _, _, _, _)
buildBatches(files, i, currentBatch, currentRecordCount, batches) ==
    IF i > Len(files)
    THEN IF Len(currentBatch) > 0 THEN Append(batches, currentBatch) ELSE batches
    ELSE LET n == NumChunks(files[i].c)
             flush == Len(currentBatch) >= BATCH_FILES \/ currentRecordCount + n > BATCH_RECORDS
             cur == IF flush THEN <<>> ELSE currentBatch
             cnt == IF flush THEN 0 ELSE currentRecordCount
             acc == IF flush /\ Len(currentBatch) > 0 THEN Append(batches, currentBatch) ELSE batches
         IN buildBatches(files, i + 1, Append(cur, files[i]), cnt + n, acc)

\* step 1 of an upsert: insert the new version
upsertInsert(v, batch) == tableAdd(v, batchRecords(batch))

\* a delete without the file_hash filter
upsertDeleteOld_AnyHash(v, batch) == deleteFiles(v, batchPaths(batch))

\* step 2 of an upsert: delete the versions with another hash
upsertDeleteOld(v, batch) == deleteStale(v, batchVersions(batch))

\* the file lists a caller passes: one entry per file, one or two files
VsFiles == [path : Paths, c : {"a", "b", "e"}]
VsFileLists ==
    {<<f>> : f \in VsFiles} \cup
    {<<f, g>> : <<f, g>> \in {fg \in VsFiles \X VsFiles : fg[1].path # fg[2].path}}

VsStay == UNCHANGED <<disk, rows, fts, scanVars, hist, lockVars, dimVars, fnVars>>

\* upsertFile(filePath, newHash, records) is called
VsCallUpsertFile(f) ==
    /\ vscall.op = "idle"
    /\ vscall' = [op |-> "upsertFile", batches |-> <<<<f>>>>, bi |-> 1, step |-> "insert"]
    /\ UNCHANGED vec
    /\ VsStay

\* batchUpsertFiles(files) is called and builds its sub-batches
VsCallBatchUpsertFiles(files) ==
    /\ vscall.op = "idle"
    /\ vscall' = [op |-> "batchUpsertFiles", batches |-> buildBatches(files, 1, <<>>, 0, <<>>),
                  bi |-> 1, step |-> "insert"]
    /\ UNCHANGED vec
    /\ VsStay

VsAdvance(call) ==
    IF call.bi < Len(call.batches)
    THEN [call EXCEPT !.bi = call.bi + 1, !.step = "insert"]
    ELSE [call EXCEPT !.step = "done"]

\* upsertFile lines 123-134, batchUpsertFiles lines 191-203
VsInsert ==
    /\ vscall.step = "insert"
    /\ LET batch == vscall.batches[vscall.bi] IN
       IF batchRecords(batch) = {}
       THEN /\ vec' = deleteFiles(vec, batchPaths(batch))
            /\ vscall' = VsAdvance(vscall)
       ELSE /\ CanAdd(vec, batchRecords(batch))
            /\ vec' = upsertInsert(vec, batch)
            /\ vscall' = [vscall EXCEPT !.step = "delete"]
    /\ VsStay

\* upsertFile lines 136-139, batchUpsertFiles lines 205-211
VsDeleteOld ==
    /\ vscall.step = "delete"
    /\ vec' = upsertDeleteOld(vec, vscall.batches[vscall.bi])
    /\ vscall' = VsAdvance(vscall)
    /\ VsStay

\* the call returns
VsReturn ==
    /\ vscall.step = "done"
    /\ vscall' = NoCall
    /\ UNCHANGED vec
    /\ VsStay

\* the process dies inside the call
VsCrash ==
    /\ vscall.step \in {"insert", "delete"}
    /\ vscall' = NoCall
    /\ UNCHANGED vec
    /\ VsStay

----------------------------------------------------------------------------
(* utils/lock.ts: the project's lock file, one action per file-system call *)

LOCK_TIMEOUT_MS == 300000
LOCK_CHECK_INTERVAL_MS == 100

Procs == {1, 2}
MaxTicks == 3
\* the timeoutMs values a caller passes
Timeouts == {LOCK_CHECK_INTERVAL_MS, 2 * LOCK_CHECK_INTERVAL_MS}
\* the clock advances by one probe interval or by the lock's time to live
TickSteps == {LOCK_CHECK_INTERVAL_MS, LOCK_TIMEOUT_MS}

NoLock == [pid |-> 0, timestamp |-> 0]

\* pc: "idle", "check" (line 92), "write" (102), "verify" (105), "sleep" (121),
\*     "scan_rows" and "scan_vec" (fn: the scan's writes to the two stores),
\*     "release" (137), "unlink" (146), "done", "failed" (withLock threw), "dead"
\* first: what the lock file was at the call's first probe ("none" before it)
\* alone: no other process has written or removed the lock file since the call
\* blocked: every probe of the call found the lock held by another live
\*     process and younger than LOCK_TIMEOUT_MS
\* outcome: how fn ended ("none", "value" or "error")
\* passed: what the caller of withLock receives ("none" while the call runs,
\*     "value" or "error" of fn, "lockError" for the error of line 177)
IdleProc == [pc |-> "idle", startTime |-> 0, timeoutMs |-> 0, wake |-> 0,
             acquired |-> FALSE, first |-> "none", alone |-> TRUE, blocked |-> TRUE,
             outcome |-> "none", passed |-> "none"]

\* isLockValid without the signal-0 probe
isLockValid_NoProbe(file, t, live) ==
    file # NoLock /\ ~(t - file.timestamp > LOCK_TIMEOUT_MS)

isLockValid(file, t, live) ==
    IF file = NoLock THEN FALSE
    ELSE IF t - file.timestamp > LOCK_TIMEOUT_MS THEN FALSE
    ELSE live[file.pid]

\* withLock that runs fn whatever acquireLock returned
withLockRuns_Always(acquired) == TRUE

\* withLock lines 176-178: fn runs only if acquireLock returned true
withLockRuns(acquired) == acquired

\* what a lock file is, whatever isLockValid makes of it
LockClass(file, t, live) ==
    IF file = NoLock THEN "absent"
    ELSE IF ~live[file.pid] THEN "dead"
    ELSE IF t - file.timestamp > LOCK_TIMEOUT_MS THEN "old"
    ELSE "live"

Acquiring(q) == lk[q].pc \in {"check", "write", "verify", "sleep"}

\* the other processes that are acquiring have a competitor from now on
Disturb(l, p) ==
    [q \in Procs |-> IF q # p /\ Acquiring(q) THEN [l[q] EXCEPT !.alone = FALSE] ELSE l[q]]

LockStay == UNCHANGED <<dataVars, scanVars, hist, vscall, dimVars, fnVars>>

\* acquireLock returned: withLock runs fn or throws
AfterAcquire(l, acquired) ==
    [l EXCEPT !.acquired = acquired, !.wake = 0,
              !.startTime = IF acquired THEN 0 ELSE @,
              !.timeoutMs = IF acquired THEN 0 ELSE @,
              !.pc = IF withLockRuns(acquired) THEN "scan_rows" ELSE "failed",
              !.passed = IF withLockRuns(acquired) THEN "none" ELSE "lockError"]

\* the while test against the probe interval instead of timeoutMs
LoopTest_OneInterval(l) ==
    IF now - l.startTime < LOCK_CHECK_INTERVAL_MS
    THEN [l EXCEPT !.pc = "check", !.wake = 0]
    ELSE AfterAcquire(l, FALSE)

\* the while test of line 90
LoopTest(l) ==
    IF now - l.startTime < l.timeoutMs
    THEN [l EXCEPT !.pc = "check", !.wake = 0]
    ELSE AfterAcquire(l, FALSE)

\* withLock(projectId, operation, fn, timeoutMs) is called: lines 174, 88, 90
WithLock(p, timeoutMs) ==
    /\ alive[p]
    /\ lk[p].pc \in {"idle", "done", "failed"}
    /\ lk' = [lk EXCEPT ![p] = LoopTest([IdleProc EXCEPT !.startTime = now,
                                                         !.timeoutMs = timeoutMs])]
    /\ UNCHANGED <<lockFile, now, ticks, alive>>
    /\ LockStay

\* line 92
Probe(p) ==
    /\ lk[p].pc = "check"
    /\ lk' = [lk EXCEPT ![p] =
                [@ EXCEPT !.first = IF @ = "none" THEN LockClass(lockFile, now, alive) ELSE @,
                          !.blocked = @ /\ LockClass(lockFile, now, alive) = "live"
                                        /\ lockFile.pid # p,
                          !.pc = IF isLockValid(lockFile, now, alive) THEN "sleep" ELSE "write",
                          !.wake = IF isLockValid(lockFile, now, alive)
                                   THEN now + LOCK_CHECK_INTERVAL_MS ELSE 0]]
    /\ UNCHANGED <<lockFile, now, ticks, alive>>
    /\ LockStay

\* lines 94-102
WriteLock(p) ==
    /\ lk[p].pc = "write"
    /\ lockFile' = [pid |-> p, timestamp |-> now]
    /\ lk' = [Disturb(lk, p) EXCEPT ![p] = [@ EXCEPT !.pc = "verify"]]
    /\ UNCHANGED <<now, ticks, alive>>
    /\ LockStay

\* lines 105-115
Verify(p) ==
    /\ lk[p].pc = "verify"
    /\ lk' = [lk EXCEPT ![p] =
                IF lockFile # NoLock /\ lockFile.pid = p
                THEN AfterAcquire(@, TRUE)
                ELSE [@ EXCEPT !.pc = "sleep", !.wake = now + LOCK_CHECK_INTERVAL_MS]]
    /\ UNCHANGED <<lockFile, now, ticks, alive>>
    /\ LockStay

\* lines 121, 90
Wake(p) ==
    /\ lk[p].pc = "sleep"
    /\ now >= lk[p].wake
    /\ lk' = [lk EXCEPT ![p] = LoopTest(@)]
    /\ UNCHANGED <<lockFile, now, ticks, alive>>
    /\ LockStay

\* a try block without the finally: an error of fn goes straight to the caller
afterFn_NoFinally(l, outcome) ==
    IF outcome = "error"
    THEN [l EXCEPT !.outcome = outcome, !.pc = "done", !.passed = outcome]
    ELSE [l EXCEPT !.outcome = outcome, !.pc = "release"]

\* withLock lines 180-184: fn has returned or thrown, the finally block
\* calls releaseLock
afterFn(l, outcome) == [l EXCEPT !.outcome = outcome, !.pc = "release"]

\* releaseLock has returned (it catches its own errors, lines 151-154): the
\* completion of the try block is the completion of withLock
afterRelease(l) == [l EXCEPT !.pc = "done", !.passed = l.outcome]

\* fn: the scan writes the row store
ScanWriteRows(p) ==
    /\ lk[p].pc = "scan_rows"
    /\ lk' = [lk EXCEPT ![p] = [@ EXCEPT !.pc = "scan_vec"]]
    /\ UNCHANGED <<lockFile, now, ticks, alive>>
    /\ LockStay

\* fn: the scan writes the vector store and returns; withLock line 183
ScanWriteVec(p) ==
    /\ lk[p].pc = "scan_vec"
    /\ lk' = [lk EXCEPT ![p] = afterFn(@, "value")]
    /\ UNCHANGED <<lockFile, now, ticks, alive>>
    /\ LockStay

\* fn throws before or after its first write
FnThrows(p) ==
    /\ lk[p].pc \in {"scan_rows", "scan_vec"}
    /\ lk' = [lk EXCEPT ![p] = afterFn(@, "error")]
    /\ UNCHANGED <<lockFile, now, ticks, alive>>
    /\ LockStay

\* releaseLock lines 137-150
ReleaseRead(p) ==
    /\ lk[p].pc = "release"
    /\ lk' = [lk EXCEPT ![p] =
                IF lockFile # NoLock /\ lockFile.pid = p
                THEN [@ EXCEPT !.pc = "unlink"] ELSE afterRelease(@)]
    /\ UNCHANGED <<lockFile, now, ticks, alive>>
    /\ LockStay

\* releaseLock line 146
Unlink(p) ==
    /\ lk[p].pc = "unlink"
    /\ lockFile' = NoLock
    /\ lk' = [Disturb(lk, p) EXCEPT ![p] = afterRelease(@)]
    /\ UNCHANGED <<now, ticks, alive>>
    /\ LockStay

\* the process is killed
Die(p) ==
    /\ alive[p]
    /\ lk[p].pc \notin {"idle", "done", "failed"}
    /\ alive' = [alive EXCEPT ![p] = FALSE]
    /\ lk' = [lk EXCEPT ![p] = [IdleProc EXCEPT !.pc = "dead"]]
    /\ UNCHANGED <<lockFile, now, ticks>>
    /\ LockStay

\* time passes
Tick(d) ==
    /\ ticks < MaxTicks
    /\ now' = now + d
    /\ ticks' = ticks + 1
    /\ UNCHANGED <<lockFile, alive, lk>>
    /\ LockStay

LockInit ==
    /\ lockFile = NoLock
    /\ now = 0
    /\ ticks = 0
    /\ alive = [p \in Procs |-> TRUE]
    /\ lk = [p \in Procs |-> IdleProc]

----------------------------------------------------------------------------
(* scanner/index.ts: scan(), one action per store operation *)

DimInit ==
    /\ meta = 0
    /\ dims = 0
    /\ vdim = {}

NoArg == [fn |-> "none"]
NoRet == [fn |-> "none"]

FnInit ==
    /\ arg = NoArg
    /\ ret = NoRet

FnStay == UNCHANGED <<dataVars, scanVars, hist, vscall, lockVars, dimVars>>

NoResults == [p \in Paths |-> NoResult]
NoOpts == [force |-> FALSE, vectorIndex |-> FALSE]

toAdd(res) == {p \in Paths : res[p].status \in {"added", "modified"}}

\* every processed file that is not upserted gets its mtime written
toUpdateMtime_NotAdded(res) == {p \in Paths : res[p].status \in {"unchanged", "skipped", "error"}}

toUpdateMtime(res) == {p \in Paths : res[p].status = "unchanged"}

\* the files the indexer upserts: needsVectorIndex and healingFiles
ixFiles == toAdd(results) \cup healing
ixRecords == UNION {recordsOf(p, results[p].hash, results[p].nchunks) : p \in ixFiles}

\* ScanStats as scan() returns them
Stats ==
    [added |-> Cardinality({p \in Paths : results[p].status = "added"}),
     modified |-> Cardinality({p \in Paths : results[p].status = "modified"}),
     unchanged |-> Cardinality({p \in Paths : results[p].status = "unchanged"}),
     deleted |-> Cardinality(deleted),
     skipped |-> Cardinality({p \in Paths : results[p].status = "skipped"}),
     errors |-> Cardinality({p \in Paths : results[p].status = "error"}),
     indexed |-> IF opts.vectorIndex THEN Cardinality(ixFiles) ELSE 0]

(* History, for stating what a scan started from.  No action reads it.
   last    "ok" if the latest scan returned and the file system has not
           changed since it began, "none" otherwise
   clean   inside a scan: the value of last when it began, "none" once the
           file system changes
   synced0 inside a scan with clean = "ok": every row had vector_index_hash
           equal to hash when the scan began
   dirty   the file system changed during the running scan
   count0  inside a scan with clean # "none": countRows when it began
   bare0   inside a scan with vectorIndex: the paths that had a files row
           but no vector record when it began
   torn    paths whose vectors were upserted by a scan that died before
           writing their vector_index_hash, with no change of the file since
   torn0   inside a scan with vectorIndex: the value of torn when it began *)
NoHist == [last |-> "none", clean |-> "none", synced0 |-> FALSE, dirty |-> FALSE,
           count0 |-> 0, bare0 |-> {}, torn |-> {}, torn0 |-> {}]

HasVectors(v, p) == \E k \in RecKeys : k.file_path = p /\ v[k] > 0

HistEdit ==
    [hist EXCEPT !.last = "none", !.clean = "none", !.synced0 = FALSE, !.dirty = (pc # "idle"),
                 !.count0 = 0, !.torn = {}, !.torn0 = {}]

HistBegin(vectorIndex) ==
    [last |-> "none", clean |-> hist.last, dirty |-> FALSE,
     synced0 |-> hist.last # "none" /\ \A p \in Paths : rows[p] # NoRow => rows[p].vih = rows[p].hash,
     count0 |-> IF hist.last # "none" THEN count(vec) ELSE 0,
     bare0 |-> IF vectorIndex
               THEN {p \in Paths : rows[p] # NoRow /\ ~HasVectors(vec, p)} ELSE {},
     torn |-> {},
     torn0 |-> IF vectorIndex THEN hist.torn ELSE {}]

HistReturn ==
    [NoHist EXCEPT !.last = IF hist.dirty THEN "none" ELSE "ok"]

HistCrash ==
    [NoHist EXCEPT !.torn = IF pc = "ix_commit" /\ ~hist.dirty
                            THEN {p \in ixFiles : results[p].nchunks > 0} ELSE {}]

\* The file system changes under the scanner.  scan() reads it in crawl and in
\* processFiles only, so a change at any other point of a scan is the same
\* change made before or after the scan and is taken there; between crawl and
\* processFiles the change that differs is the removal of a crawled file.
Edit(p, c, m) ==
    /\ pc = "idle"
    /\ disk[p] # [c |-> c, mtime |-> m]
    /\ disk' = [disk EXCEPT ![p] = [c |-> c, mtime |-> m]]
    /\ hist' = HistEdit
    /\ UNCHANGED <<rows, fts, vec, scanVars>>
    /\ UNCHANGED <<vscall, lockVars, dimVars, fnVars>>

Remove(p) ==
    /\ pc = "idle" \/ (pc = "process" /\ p \in scanned)
    /\ disk[p] # NoFile
    /\ disk' = [disk EXCEPT ![p] = NoFile]
    /\ hist' = HistEdit
    /\ UNCHANGED <<rows, fts, vec, scanVars>>
    /\ UNCHANGED <<vscall, lockVars, dimVars, fnVars>>

ScanBegin(force, vectorIndex) ==
    /\ pc = "idle"
    /\ opts' = [force |-> force, vectorIndex |-> vectorIndex]
    /\ pc' = IF force THEN "clear" ELSE "crawl"
    /\ hist' = HistBegin(vectorIndex)
    /\ UNCHANGED <<dataVars, scanned, results, deleted, healing>>
    /\ UNCHANGED <<vscall, lockVars, dimVars, fnVars>>

ScanClearDb ==
    /\ pc = "clear"
    /\ rows' = clear(rows)
    /\ pc' = IF opts.vectorIndex THEN "clear_vec" ELSE "crawl"
    /\ UNCHANGED <<disk, fts, vec, opts, scanned, results, deleted, healing, hist>>
    /\ UNCHANGED <<vscall, lockVars, dimVars, fnVars>>

ScanClearVec ==
    /\ pc = "clear_vec"
    /\ vec' = EmptyTable
    /\ pc' = "crawl"
    /\ UNCHANGED <<disk, rows, fts, opts, scanned, results, deleted, healing, hist>>
    /\ UNCHANGED <<vscall, lockVars, dimVars, fnVars>>

ScanCrawl ==
    /\ pc = "crawl"
    /\ scanned' = {p \in Paths : disk[p] # NoFile}
    /\ pc' = "process"
    /\ UNCHANGED <<dataVars, opts, results, deleted, healing, hist>>
    /\ UNCHANGED <<vscall, lockVars, dimVars, fnVars>>

ScanProcess ==
    /\ pc = "process"
    /\ results' = [p \in Paths |-> IF p \in scanned
                                   THEN processFile(p, disk[p], rows[p]) ELSE NoResult]
    /\ deleted' = getAllPaths(rows) \ scanned
    /\ pc' = "upsert"
    /\ UNCHANGED <<dataVars, opts, scanned, healing, hist>>
    /\ UNCHANGED <<vscall, lockVars, dimVars, fnVars>>

ScanUpsert ==
    /\ pc = "upsert"
    /\ rows' = batchUpsert(rows, toAdd(results), results)
    /\ pc' = IF toAdd(results) # {} THEN "upsert_fts" ELSE "mtime"
    /\ UNCHANGED <<disk, fts, vec, opts, scanned, results, deleted, healing, hist>>
    /\ UNCHANGED <<vscall, lockVars, dimVars, fnVars>>

ScanUpsertFts ==
    /\ pc = "upsert_fts"
    /\ fts' = batchUpsertFileFts(fts, toAdd(results))
    /\ pc' = "mtime"
    /\ UNCHANGED <<disk, rows, vec, opts, scanned, results, deleted, healing, hist>>
    /\ UNCHANGED <<vscall, lockVars, dimVars, fnVars>>

ScanUpdateMtime ==
    /\ pc = "mtime"
    /\ rows' = batchUpdateMtime(rows, toUpdateMtime(results), results)
    /\ pc' = "delete"
    /\ UNCHANGED <<disk, fts, vec, opts, scanned, results, deleted, healing, hist>>
    /\ UNCHANGED <<vscall, lockVars, dimVars, fnVars>>

ScanDelete ==
    /\ pc = "delete"
    /\ rows' = batchDelete(rows, deleted)
    /\ pc' = IF deleted # {} THEN "delete_fts" ELSE "index"
    /\ UNCHANGED <<disk, fts, vec, opts, scanned, results, deleted, healing, hist>>
    /\ UNCHANGED <<vscall, lockVars, dimVars, fnVars>>

ScanDeleteFts ==
    /\ pc = "delete_fts"
    /\ fts' = batchDeleteFileFts(fts, deleted)
    /\ pc' = "index"
    /\ UNCHANGED <<disk, rows, vec, opts, scanned, results, deleted, healing, hist>>
    /\ UNCHANGED <<vscall, lockVars, dimVars, fnVars>>

\* lines 186-223: collect allToIndex
ScanCollect ==
    /\ pc = "index"
    /\ healing' = IF opts.vectorIndex
                  THEN {p \in toUpdateMtime(results) : p \in getFilesNeedingVectorIndex(rows)}
                  ELSE {}
    /\ pc' = IF opts.vectorIndex /\ (toAdd(results) \cup healing' \cup deleted) # {}
             THEN "ix_add" ELSE "done"
    /\ UNCHANGED <<dataVars, opts, scanned, results, deleted, hist>>
    /\ UNCHANGED <<vscall, lockVars, dimVars, fnVars>>

\* indexer.indexFiles -> batchUpsertFiles: the sub-batch's insert, or, when the
\* sub-batch holds no record, deleteFiles of its paths
IndexAdd ==
    /\ pc = "ix_add"
    /\ IF ixFiles = {}
       THEN /\ pc' = "ix_commit"
            /\ vec' = vec
       ELSE IF ixRecords = {}
       THEN /\ vec' = deleteFiles(vec, ixFiles)
            /\ pc' = "ix_commit"
       ELSE /\ CanAdd(vec, ixRecords)
            /\ vec' = tableAdd(vec, ixRecords)
            /\ pc' = "ix_stale"
    /\ UNCHANGED <<disk, rows, fts, opts, scanned, results, deleted, healing, hist>>
    /\ UNCHANGED <<vscall, lockVars, dimVars, fnVars>>

\* batchUpsertFiles: the sub-batch's OR-joined delete of the old versions
IndexDeleteStale ==
    /\ pc = "ix_stale"
    /\ vec' = deleteStale(vec, {<<p, results[p].hash>> : p \in ixFiles})
    /\ pc' = "ix_commit"
    /\ UNCHANGED <<disk, rows, fts, opts, scanned, results, deleted, healing, hist>>
    /\ UNCHANGED <<vscall, lockVars, dimVars, fnVars>>

\* indexer: on success set vector_index_hash = hash for the upserted files
IndexCommit ==
    /\ pc = "ix_commit"
    /\ rows' = batchUpdateVectorIndexHash(rows, ixFiles, results)
    /\ pc' = "ix_purge"
    /\ UNCHANGED <<disk, fts, vec, opts, scanned, results, deleted, healing, hist>>
    /\ UNCHANGED <<vscall, lockVars, dimVars, fnVars>>

\* indexer: purge the vector records of the deleted files
IndexPurge ==
    /\ pc = "ix_purge"
    /\ vec' = deleteFiles(vec, deleted)
    /\ pc' = "done"
    /\ UNCHANGED <<disk, rows, fts, opts, scanned, results, deleted, healing, hist>>
    /\ UNCHANGED <<vscall, lockVars, dimVars, fnVars>>

\* scan() returns its stats; finally closes the connections
ScanReturn ==
    /\ pc = "done"
    /\ pc' = "idle"
    /\ opts' = NoOpts
    /\ scanned' = {}
    /\ results' = NoResults
    /\ deleted' = {}
    /\ healing' = {}
    /\ hist' = HistReturn
    /\ UNCHANGED dataVars
    /\ UNCHANGED <<vscall, lockVars, dimVars, fnVars>>

\* the process dies inside scan(): memory is lost, the stores stay as written
Crash ==
    /\ pc \notin {"idle", "done"}
    /\ pc' = "idle"
    /\ opts' = NoOpts
    /\ scanned' = {}
    /\ results' = NoResults
    /\ deleted' = {}
    /\ healing' = {}
    /\ hist' = HistCrash
    /\ UNCHANGED dataVars
    /\ UNCHANGED <<vscall, lockVars, dimVars, fnVars>>

ScanInit ==
    /\ disk \in [Paths -> {NoFile} \cup [c : Contents, mtime : Mtimes]]
    /\ \A p \in Paths : disk[p] = NoFile \/ (disk[p].c \in ContentsAt(p) /\ disk[p].mtime \in MtimesAt(p))
    /\ rows = [p \in Paths |-> NoRow]
    /\ fts = {}
    /\ vec = EmptyTable
    /\ pc = "idle"
    /\ opts = NoOpts
    /\ scanned = {}
    /\ results = NoResults
    /\ deleted = {}
    /\ healing = {}
    /\ hist = NoHist

Next ==
    \/ \E p \in Paths : \E c \in ContentsAt(p), m \in MtimesAt(p) : Edit(p, c, m)
    \/ \E p \in Paths : Remove(p)
    \/ \E force \in BOOLEAN, vectorIndex \in BOOLEAN : ScanBegin(force, vectorIndex)
    \/ ScanClearDb
    \/ ScanClearVec
    \/ ScanCrawl
    \/ ScanProcess
    \/ ScanUpsert
    \/ ScanUpsertFts
    \/ ScanUpdateMtime
    \/ ScanDelete
    \/ ScanDeleteFts
    \/ ScanCollect
    \/ IndexAdd
    \/ IndexDeleteStale
    \/ IndexCommit
    \/ IndexPurge
    \/ ScanReturn
    \/ Crash

Init ==
    /\ ScanInit
    /\ vscall = NoCall
    /\ LockInit
    /\ DimInit
    /\ FnInit

Spec == Init /\ [][Next]_vars

InitVS ==
    /\ disk = [p \in Paths |-> NoFile]
    /\ rows = [p \in Paths |-> NoRow]
    /\ fts = {}
    /\ vec = EmptyTable
    /\ pc = "idle"
    /\ opts = NoOpts
    /\ scanned = {}
    /\ results = NoResults
    /\ deleted = {}
    /\ healing = {}
    /\ hist = NoHist
    /\ vscall = NoCall
    /\ LockInit
    /\ DimInit
    /\ FnInit

NextVS ==
    \/ \E f \in VsFiles : VsCallUpsertFile(f)
    \/ \E files \in VsFileLists : VsCallBatchUpsertFiles(files)
    \/ VsInsert
    \/ VsDeleteOld
    \/ VsReturn
    \/ VsCrash

SpecVS == InitVS /\ [][NextVS]_vars

NextLock ==
    \/ \E p \in Procs, timeoutMs \in Timeouts : WithLock(p, timeoutMs)
    \/ \E p \in Procs : Probe(p)
    \/ \E p \in Procs : WriteLock(p)
    \/ \E p \in Procs : Verify(p)
    \/ \E p \in Procs : Wake(p)
    \/ \E p \in Procs : ScanWriteRows(p)
    \/ \E p \in Procs : ScanWriteVec(p)
    \/ \E p \in Procs : FnThrows(p)
    \/ \E p \in Procs : ReleaseRead(p)
    \/ \E p \in Procs : Unlink(p)
    \/ \E p \in Procs : Die(p)
    \/ \E d \in TickSteps : Tick(d)

SpecLock == InitVS /\ [][NextLock]_vars

----------------------------------------------------------------------------
(* scanner/index.ts lines 70-99: the embedding dimensions of a scan.  The
   reconcile and the indexing of the scan are one step each here; the vector
   table is kept by file version and by the dimension its vectors have. *)

Dims == {1024, 1536}

VdimKeys == [file_path : Paths, file_hash : Hashes, dim : Dims]

\* lines 71-82: options.force, or a stored dimension other than the configured
forceReindex(force, vectorIndex, stored, current) ==
    force \/ (vectorIndex /\ stored # 0 /\ stored # current)

\* the file versions a scan upserts, with the dimension of their vectors
dimVersions(files, res, d) ==
    {k \in VdimKeys : k.file_path \in files /\ res[k.file_path].nchunks > 0
                      /\ k.file_hash = res[k.file_path].hash /\ k.dim = d}

\* batchUpsertFiles on the table by version: empty batch, or insert then delete
dimUpsert(v, files, res, d) ==
    IF dimVersions(files, res, d) = {}
    THEN {k \in v : k.file_path \notin files}
    ELSE {k \in v \cup dimVersions(files, res, d) :
             k.file_path \in files => k.file_hash = res[k.file_path].hash}

DimStay == UNCHANGED <<fts, vec, scanned, hist, vscall, lockVars, fnVars>>

DimScanBegin(force, vectorIndex, d) ==
    /\ pc = "idle"
    /\ opts' = [force |-> force, vectorIndex |-> vectorIndex]
    /\ dims' = d
    /\ pc' = "d_dims"
    /\ UNCHANGED <<disk, rows, results, deleted, healing, meta, vdim>>
    /\ DimStay

\* lines 70-86: compare with the stored dimensions, persist the configured ones
DimCheck ==
    /\ pc = "d_dims"
    /\ opts' = [opts EXCEPT !.force = forceReindex(opts.force, opts.vectorIndex, meta, dims)]
    /\ meta' = IF opts.vectorIndex THEN dims ELSE meta
    /\ pc' = IF opts'.force THEN "d_clear" ELSE "d_reconcile"
    /\ UNCHANGED <<disk, rows, results, deleted, healing, dims, vdim>>
    /\ DimStay

\* line 91
DimClearDb ==
    /\ pc = "d_clear"
    /\ rows' = clear(rows)
    /\ pc' = IF opts.vectorIndex THEN "d_clear_vec" ELSE "d_reconcile"
    /\ UNCHANGED <<disk, opts, results, deleted, healing, dimVars>>
    /\ DimStay

\* lines 94-98: indexer.clear() drops the vector table
DimClearVec ==
    /\ pc = "d_clear_vec"
    /\ vdim' = {}
    /\ pc' = "d_reconcile"
    /\ UNCHANGED <<disk, rows, opts, results, deleted, healing, meta, dims>>
    /\ DimStay

\* lines 102-173: crawl, processFiles, batchUpsert, batchUpdateMtime, batchDelete
DimReconcile ==
    /\ pc = "d_reconcile"
    /\ LET res == [p \in Paths |-> IF disk[p] # NoFile
                                   THEN processFile(p, disk[p], rows[p]) ELSE NoResult]
           gone == {p \in getAllPaths(rows) : disk[p] = NoFile}
       IN /\ results' = res
          /\ deleted' = gone
          /\ rows' = batchDelete(batchUpdateMtime(batchUpsert(rows, toAdd(res), res),
                                                  toUpdateMtime(res), res), gone)
          /\ healing' = IF opts.vectorIndex
                        THEN {p \in toUpdateMtime(res) : p \in getFilesNeedingVectorIndex(rows')}
                        ELSE {}
    /\ pc' = IF opts.vectorIndex /\ (toAdd(results') \cup healing' \cup deleted') # {}
             THEN "d_index" ELSE "done"
    /\ UNCHANGED <<disk, opts, dimVars>>
    /\ DimStay

MixedAdd == dimVersions(ixFiles, results, dims) # {} /\ \E k \in vdim : k.dim # dims

\* indexer.indexFiles: upsert the vectors, built with the configured dimensions
DimIndex ==
    /\ pc = "d_index"
    /\ vdim' = dimUpsert(vdim, ixFiles, results, dims)
    /\ pc' = "d_commit"
    /\ UNCHANGED <<disk, rows, opts, results, deleted, healing, meta, dims>>
    /\ DimStay

\* a table holding vectors of another dimension may reject the insert: the
\* scan throws
DimIndexRejected ==
    /\ pc = "d_index"
    /\ MixedAdd
    /\ pc' = "idle"
    /\ opts' = NoOpts
    /\ results' = NoResults
    /\ deleted' = {}
    /\ healing' = {}
    /\ dims' = 0
    /\ UNCHANGED <<disk, rows, meta, vdim>>
    /\ DimStay

\* indexer.indexFiles: set vector_index_hash, purge the deleted files
DimCommit ==
    /\ pc = "d_commit"
    /\ rows' = batchUpdateVectorIndexHash(rows, ixFiles, results)
    /\ vdim' = {k \in vdim : k.file_path \notin deleted}
    /\ pc' = "done"
    /\ UNCHANGED <<disk, opts, results, deleted, healing, meta, dims>>
    /\ DimStay

DimReset ==
    /\ pc' = "idle"
    /\ opts' = NoOpts
    /\ results' = NoResults
    /\ deleted' = {}
    /\ healing' = {}
    /\ dims' = 0
    /\ UNCHANGED <<disk, rows, meta, vdim>>
    /\ DimStay

DimReturn ==
    /\ pc = "done"
    /\ DimReset

\* the process dies inside scan()
DimCrash ==
    /\ pc \in {"d_dims", "d_clear", "d_clear_vec", "d_reconcile", "d_index", "d_commit"}
    /\ DimReset

NextDim ==
    \/ \E p \in Paths : \E c \in ContentsAt(p), m \in MtimesAt(p) : Edit(p, c, m)
    \/ \E p \in Paths : Remove(p)
    \/ \E force \in BOOLEAN, vectorIndex \in BOOLEAN, d \in Dims : DimScanBegin(force, vectorIndex, d)
    \/ DimCheck
    \/ DimClearDb
    \/ DimClearVec
    \/ DimReconcile
    \/ DimIndex
    \/ DimIndexRejected
    \/ DimCommit
    \/ DimReturn
    \/ DimCrash

SpecDim == Init /\ [][NextDim]_vars

----------------------------------------------------------------------------
(* SourceAdapter: index domains and non-whitespace counts.  A source text
   is a sequence of code points, each of a kind: "x" an ASCII letter, "s" a
   space, "n" a line feed, "c" a three-byte character (one UTF-16 unit),
   "g" a four-byte character (a surrogate pair). *)

TextKinds == {"x", "s", "n", "c", "g"}

MaxLen == 2

Texts == UNION {[1..n -> TextKinds] : n \in 0..MaxLen}

Min(a, b) == IF a <= b THEN a ELSE b
Max(a, b) == IF a >= b THEN a ELSE b

\* the string as JavaScript holds it: UTF-16 code units
RECURSIVE utf16(_)
utf16(t) ==
    IF t = <<>> THEN <<>>
    ELSE (IF Head(t) = "g" THEN <<"hi", "lo">> ELSE <<Head(t)>>) \o utf16(Tail(t))

\* Buffer.from(code, 'utf8'): "a" a byte 0xxxxxxx, "l3" 1110xxxx, "l4" 11110xxx,
\* "t" a continuation byte 10xxxxxx
RECURSIVE utf8(_)
utf8(t) ==
    IF t = <<>> THEN <<>>
    ELSE (CASE Head(t) = "c" -> <<"l3", "t", "t">>
            [] Head(t) = "g" -> <<"l4", "t", "t", "t">>
            [] OTHER -> <<"a">>) \o utf8(Tail(t))

domainOf(code, endIndex) ==
    IF endIndex = Len(utf16(code)) THEN "utf16"
    ELSE IF endIndex = Len(utf8(code)) THEN "utf8"
    ELSE "unknown"

charBytes(byte) ==
    CASE byte = "a" -> 1
      [] byte = "l2" -> 2
      [] byte = "l3" -> 3
      [] byte = "l4" -> 4
      [] OTHER -> 1

\* the while loop of buildByteToCharMap, map indexed from 0
RECURSIVE byteToCharLoop(_, _, _, _)
byteToCharLoop(buffer, byteIndex, charIndex, map) ==
    IF byteIndex >= Len(buffer)
    THEN [map EXCEPT ![Len(buffer)] = charIndex]
    ELSE LET n == charBytes(buffer[byteIndex + 1])
             filled == [i \in DOMAIN map |->
                          IF i >= byteIndex /\ i < byteIndex + n /\ i < Len(buffer)
                          THEN charIndex ELSE map[i]]
         IN byteToCharLoop(buffer, byteIndex + n,
                           IF n = 4 THEN charIndex + 2 ELSE charIndex + 1, filled)

buildByteToCharMap(code) ==
    byteToCharLoop(utf8(code), 0, 0, [i \in 0..Len(utf8(code)) |-> 0])

isWhitespace(unit) == unit \in {"s", "n"}

\* prefixSum[i] is the number of non-whitespace units before index i
buildNwsPrefixSum(code) ==
    LET u == utf16(code)
    IN [i \in 0..Len(u) |-> Cardinality({j \in 1..i : ~isWhitespace(u[j])})]

byteToChar(code, endIndex, byteOffset) ==
    IF domainOf(code, endIndex) # "utf8" THEN byteOffset
    ELSE LET map == buildByteToCharMap(code)
             safeOffset == Max(0, Min(Len(utf8(code)), byteOffset))
         IN map[safeOffset]

\* an end offset read as the index of the last counted unit
nws_InclusiveEnd(code, endIndex, start, end) ==
    LET prefixSum == buildNwsPrefixSum(code)
        maxIndex == Len(utf16(code))
        s == Max(0, Min(maxIndex, byteToChar(code, endIndex, start)))
        e == Max(0, Min(maxIndex, byteToChar(code, endIndex, end) + 1))
    IN prefixSum[e] - prefixSum[s]

nws(code, endIndex, start, end) ==
    LET prefixSum == buildNwsPrefixSum(code)
        maxIndex == Len(utf16(code))
        charStart == byteToChar(code, endIndex, start)
        charEnd == byteToChar(code, endIndex, end)
        s == Max(0, Min(maxIndex, charStart))
        e == Max(0, Min(maxIndex, charEnd))
    IN prefixSum[e] - prefixSum[s]

getTotalNws(code) == buildNwsPrefixSum(code)[Len(utf16(code))]

\* offsets reach one past either end of the longest text
Offsets == (0 - 1)..(4 * MaxLen + 1)

NwsCall ==
    /\ arg.fn = "nws"
    /\ ret = NoRet
    /\ ret' = [fn |-> "nws",
               ab |-> nws(arg.code, arg.endIndex, arg.a, arg.b),
               bc |-> nws(arg.code, arg.endIndex, arg.b, arg.c),
               ac |-> nws(arg.code, arg.endIndex, arg.a, arg.c)]
    /\ UNCHANGED arg
    /\ FnStay

\* nothing but the called function is active
Idle ==
    /\ disk = [p \in Paths |-> NoFile]
    /\ rows = [p \in Paths |-> NoRow]
    /\ fts = {}
    /\ vec = EmptyTable
    /\ pc = "idle"
    /\ opts = NoOpts
    /\ scanned = {}
    /\ results = NoResults
    /\ deleted = {}
    /\ healing = {}
    /\ hist = NoHist
    /\ vscall = NoCall
    /\ LockInit
    /\ DimInit

InitNws ==
    /\ Idle
    /\ ret = NoRet
    /\ \E t \in Texts, a \in Offsets, b \in Offsets, c \in Offsets :
          /\ a <= b
          /\ b <= c
          /\ \E n \in {Len(utf16(t)), Len(utf8(t))} :
                arg = [fn |-> "nws", code |-> t, endIndex |-> n, a |-> a, b |-> b, c |-> c]

NextNws == NwsCall

SpecNws == InitNws /\ [][NextNws]_vars

----------------------------------------------------------------------------
(* SemanticSplitter: AST windows, line fallback, raw and vector spans.  A
   syntax node is a record of its offsets in the tree's index domain, its
   type ("code" or "comment"), the name its language gives it ("" for a node
   outside the hierarchy) and its children in document order. *)

MaxSplitLen == 3

\* new SemanticSplitter({maxChunkSize, minChunkSize, chunkOverlap})
splitterConfig(maxChunkSize, minChunkSize, chunkOverlap) ==
    [maxChunkSize |-> maxChunkSize,
     minChunkSize |-> minChunkSize,
     chunkOverlap |-> chunkOverlap,
     maxRawChars |-> maxChunkSize * 4]

Configs == {splitterConfig(m, 1, 1) : m \in {1, 2}}

FilePath == "f.ts"

Span(start, end) == [start |-> start, end |-> end]

\* String.prototype.slice on clamped indices, as a sequence of code units
sliceUnits(u, start, end) ==
    LET s0 == Max(0, Min(Len(u), start))
        e0 == Max(0, Min(Len(u), end))
    IN IF s0 >= e0 THEN <<>> ELSE SubSeq(u, s0 + 1, e0)

slice(code, endIndex, start, end) ==
    sliceUnits(utf16(code), byteToChar(code, endIndex, start), byteToChar(code, endIndex, end))

bareNode(node) == [start |-> node.start, end |-> node.end, type |-> node.type]

Window(nodes, size, contextPath) ==
    [nodes |-> nodes, size |-> size, contextPath |-> contextPath]

RECURSIVE sumNws(_, _, _)
sumNws(nodes, code, endIndex) ==
    IF nodes = <<>> THEN 0
    ELSE nws(code, endIndex, Head(nodes).start, Head(nodes).end)
           + sumNws(Tail(nodes), code, endIndex)

\* only the last node of the list is looked at
trailingComments_AtMostOne(nodes) ==
    IF nodes = <<>> \/ nodes[Len(nodes)].type # "comment" THEN 0 ELSE 1

\* how many nodes at the tail of the list are comments
RECURSIVE trailingComments(_)
trailingComments(nodes) ==
    IF nodes = <<>> \/ nodes[Len(nodes)].type # "comment" THEN 0
    ELSE 1 + trailingComments(SubSeq(nodes, 1, Len(nodes) - 1))

\* the pair <<current, next>> after the comments moved
forwardAbsorbComments(current, next, code, endIndex) ==
    LET k == trailingComments(current.nodes)
        kept == SubSeq(current.nodes, 1, Len(current.nodes) - k)
        absorbedNodes == SubSeq(current.nodes, Len(current.nodes) - k + 1, Len(current.nodes))
        absorbedNws == sumNws(absorbedNodes, code, endIndex)
        gapNws == IF Len(next.nodes) > 0
                  THEN nws(code, endIndex, absorbedNodes[Len(absorbedNodes)].end, next.nodes[1].start)
                  ELSE 0
    IN IF k = 0 THEN <<current, next>>
       ELSE <<[current EXCEPT !.nodes = kept, !.size = @ - absorbedNws],
              [next EXCEPT !.nodes = absorbedNodes \o @, !.size = @ + absorbedNws + gapNws]>>

RECURSIVE commonPrefix(_, _)
commonPrefix(a, b) ==
    IF a = <<>> \/ b = <<>> \/ Head(a) # Head(b) THEN 0
    ELSE 1 + commonPrefix(Tail(a), Tail(b))

isSameContext(a, b) == commonPrefix(a, b) >= Min(Len(a), Len(b))

\* the budgets are compared in tenths: boundaryPenalty is 10 or 7 tenths
fitsBudgets(current, next, cfg, code, endIndex) ==
    LET currentStart == current.nodes[1].start
        currentEnd == current.nodes[Len(current.nodes)].end
        nextStart == next.nodes[1].start
        nextEnd == next.nodes[Len(next.nodes)].end
        gapNws == nws(code, endIndex, currentEnd, nextStart)
        combinedNws == current.size + gapNws + next.size
        combinedRawLen == nextEnd - currentStart
        penalty10 == IF isSameContext(current.contextPath, next.contextPath) THEN 10 ELSE 7
        isTiny == current.size < cfg.minChunkSize
        fitsNwsBudget == \/ 10 * combinedNws <= cfg.maxChunkSize * penalty10
                         \/ (isTiny /\ 20 * combinedNws < 3 * cfg.maxChunkSize * penalty10)
        fitsRawBudget == 10 * combinedRawLen <= cfg.maxRawChars * penalty10
    IN [fits |-> fitsNwsBudget /\ fitsRawBudget, combinedNws |-> combinedNws]

RECURSIVE mergeLoop(_, _, _, _, _, _, _)
mergeLoop(windows, i, current0, merged, cfg, code, endIndex) ==
    IF i > Len(windows) THEN Append(merged, current0)
    ELSE LET moved == forwardAbsorbComments(current0, windows[i], code, endIndex)
             current == moved[1]
             next == moved[2]
         IN IF Len(current.nodes) = 0
            THEN mergeLoop(windows, i + 1, next, merged, cfg, code, endIndex)
            ELSE LET b == fitsBudgets(current, next, cfg, code, endIndex)
                 IN IF b.fits
                    THEN mergeLoop(windows, i + 1,
                                   Window(current.nodes \o next.nodes, b.combinedNws,
                                          IF Len(next.contextPath) > Len(current.contextPath)
                                          THEN next.contextPath ELSE current.contextPath),
                                   merged, cfg, code, endIndex)
                    ELSE mergeLoop(windows, i + 1, next, Append(merged, current),
                                   cfg, code, endIndex)

mergeAdjacentWindows(windows, cfg, code, endIndex) ==
    IF Len(windows) = 0 THEN <<>>
    ELSE mergeLoop(windows, 2, windows[1], <<>>, cfg, code, endIndex)

RECURSIVE visitNode(_, _, _, _, _)
RECURSIVE visitChildren(_, _, _, _, _)
visitChildren(children, context, cfg, code, endIndex) ==
    IF children = <<>> THEN <<>>
    ELSE visitNode(Head(children), context, cfg, code, endIndex)
           \o visitChildren(Tail(children), context, cfg, code, endIndex)

visitNode(node, context, cfg, code, endIndex) ==
    LET nodeSize == nws(code, endIndex, node.start, node.end)
        nextContext == IF node.name # "" THEN Append(context, node.name) ELSE context
    IN IF nodeSize <= cfg.maxChunkSize \/ Len(node.children) = 0
       THEN <<Window(<<bareNode(node)>>, nodeSize, nextContext)>>
       ELSE mergeAdjacentWindows(visitChildren(node.children, nextContext, cfg, code, endIndex),
                                 cfg, code, endIndex)

\* the binary search of findOverlapStart
RECURSIVE overlapSearch(_, _, _, _, _, _, _)
overlapSearch(low, high, result, start, targetNws, code, endIndex) ==
    IF low > high THEN result
    ELSE LET mid == (low + high) \div 2
         IN IF nws(code, endIndex, mid, start) >= targetNws
            THEN overlapSearch(mid + 1, high, mid, start, targetNws, code, endIndex)
            ELSE overlapSearch(low, mid - 1, result, start, targetNws, code, endIndex)

findOverlapStart(start, targetNws, code, endIndex) ==
    IF start <= 0 \/ targetNws <= 0 THEN start
    ELSE Max(0, overlapSearch(0, start, start, start, targetNws, code, endIndex))

Chunk(displayCode, nwsSize, startIndex, endIndex, rawSpan, vectorSpan, contextPath) ==
    [displayCode |-> displayCode, nwsSize |-> nwsSize,
     startIndex |-> startIndex, endIndex |-> endIndex,
     rawSpan |-> rawSpan, vectorSpan |-> vectorSpan, contextPath |-> contextPath]

\* the overlap is taken whatever raw length it adds
vectorStartOf_NoFuse(i, start, cfg, code, endIndex) ==
    IF i > 1 /\ cfg.chunkOverlap > 0
    THEN findOverlapStart(start, cfg.chunkOverlap, code, endIndex)
    ELSE start

vectorStartOf(i, start, cfg, code, endIndex) ==
    IF i > 1 /\ cfg.chunkOverlap > 0
    THEN LET candidateStart == findOverlapStart(start, cfg.chunkOverlap, code, endIndex)
             overlapRawLen == start - candidateStart
         IN IF 4 * overlapRawLen <= cfg.maxRawChars THEN candidateStart ELSE start
    ELSE start

\* the gap before a chunk is left to nobody
rawSpanOf_OwnStart(windows, i, codeEndIndex) ==
    Span(windows[i].nodes[1].start,
         IF i = Len(windows) THEN codeEndIndex
         ELSE windows[i].nodes[Len(windows[i].nodes)].end)

rawSpanOf(windows, i, codeEndIndex) ==
    LET prevEnd == IF i = 1 THEN 0 ELSE windows[i - 1].nodes[Len(windows[i - 1].nodes)].end
        end == windows[i].nodes[Len(windows[i].nodes)].end
    IN Span(prevEnd, IF i = Len(windows) THEN codeEndIndex ELSE end)

windowsToChunks(windows, cfg, code, endIndex) ==
    LET codeEndIndex == IF domainOf(code, endIndex) = "utf8"
                        THEN Len(utf8(code)) ELSE Len(utf16(code))
    IN [i \in 1..Len(windows) |->
          LET w == windows[i]
              start == w.nodes[1].start
              end == w.nodes[Len(w.nodes)].end
          IN Chunk(slice(code, endIndex, start, end), w.size, start, end,
                   rawSpanOf(windows, i, codeEndIndex),
                   Span(vectorStartOf(i, start, cfg, code, endIndex), end),
                   w.contextPath)]

\* String.prototype.split('\n') on the code units
RECURSIVE splitLines(_, _)
splitLines(u, line) ==
    IF u = <<>> THEN <<line>>
    ELSE IF Head(u) = "n" THEN <<line>> \o splitLines(Tail(u), <<>>)
    ELSE splitLines(Tail(u), Append(line, Head(u)))

\* Array.prototype.join('\n')
RECURSIVE joinLines(_)
joinLines(lines) ==
    IF lines = <<>> THEN <<>>
    ELSE IF Len(lines) = 1 THEN lines[1]
    ELSE lines[1] \o <<"n">> \o joinLines(Tail(lines))

\* the for loop of fallbackSplit and the remaining lines after it
RECURSIVE fallbackLoop(_, _, _, _, _, _, _, _, _, _)
fallbackLoop(lines, i, lineStartIndex, chunkStartIndex, chunkRawStart, currentLines, currentSize, chunks, code, cfg) ==
    IF i > Len(lines)
    THEN IF Len(currentLines) > 0
         THEN LET displayCode == joinLines(currentLines)
                  chunkEndIndex == chunkStartIndex + Len(displayCode)
              IN Append(chunks, Chunk(displayCode, currentSize, chunkStartIndex, chunkEndIndex,
                                      Span(chunkRawStart, Len(utf16(code))),
                                      Span(chunkStartIndex, chunkEndIndex), <<FilePath>>))
         ELSE chunks
    ELSE LET line == lines[i]
             lineEndIndex == lineStartIndex + Len(line)
             lineNws == nws(code, Len(utf16(code)), lineStartIndex, lineEndIndex)
         IN IF currentSize + lineNws > cfg.maxChunkSize /\ Len(currentLines) > 0
            THEN LET displayCode == joinLines(currentLines)
                     chunkEndIndex == chunkStartIndex + Len(displayCode)
                 IN fallbackLoop(lines, i + 1, lineEndIndex + 1,
                                 chunkStartIndex + Len(displayCode) + 1, chunkEndIndex + 1,
                                 <<line>>, lineNws,
                                 Append(chunks, Chunk(displayCode, currentSize,
                                                      chunkStartIndex, chunkEndIndex,
                                                      Span(chunkRawStart, chunkEndIndex + 1),
                                                      Span(chunkStartIndex, chunkEndIndex),
                                                      <<FilePath>>)),
                                 code, cfg)
            ELSE fallbackLoop(lines, i + 1, lineEndIndex + 1, chunkStartIndex, chunkRawStart,
                              Append(currentLines, line), currentSize + lineNws, chunks,
                              code, cfg)

fallbackSplit(code, cfg) ==
    LET totalSize == getTotalNws(code)
        len == Len(utf16(code))
    IN IF totalSize <= cfg.maxChunkSize
       THEN <<Chunk(utf16(code), totalSize, 0, len, Span(0, len), Span(0, len), <<FilePath>>)>>
       ELSE fallbackLoop(splitLines(utf16(code), <<>>), 1, 0, 0, 0, <<>>, 0, <<>>, code, cfg)

splitPlainText(code, cfg) == fallbackSplit(code, cfg)

split(tree, code, cfg) ==
    IF domainOf(code, tree.end) = "unknown" THEN fallbackSplit(code, cfg)
    ELSE windowsToChunks(visitNode(tree, <<FilePath>>, cfg, code, tree.end), cfg, code, tree.end)

(* The inputs: texts, and for each text the syntax trees a parser can hand
   over.  Nodes begin and end between characters, are not empty, lie inside
   their parent, and siblings follow each other without overlap. *)

AsciiTexts == UNION {[1..n -> {"x", "s"}] : n \in 0..MaxSplitLen}
WideTexts == UNION {[1..n -> {"c", "s"}] : n \in 0..MaxSplitLen}
LineTexts == UNION {[1..n -> {"x", "s", "n"}] : n \in 0..MaxSplitLen}

\* the offset of the boundary after i characters, in units or in bytes
boundary(code, inBytes, i) ==
    IF inBytes THEN Len(utf8(SubSeq(code, 1, i))) ELSE Len(utf16(SubSeq(code, 1, i)))

Boundaries(code, inBytes) == {boundary(code, inBytes, i) : i \in 0..Len(code)}

Node(start, end, type, name, children) ==
    [start |-> start, end |-> end, type |-> type, name |-> name, children |-> children]

Spans(B, lo, hi) == {sp \in B \X B : lo <= sp[1] /\ sp[1] < sp[2] /\ sp[2] <= hi}

Leaves(B, lo, hi) ==
    {Node(sp[1], sp[2], t, "", <<>>) : sp \in Spans(B, lo, hi), t \in {"code", "comment"}}

\* one or two leaves in document order
LeafLists(B, lo, hi) ==
    {<<a>> : a \in Leaves(B, lo, hi)}
        \cup UNION {{<<a, b>> : b \in Leaves(B, a.end, hi)} : a \in Leaves(B, lo, hi)}

InnerNodes(B, lo, hi, name) ==
    {Node(sp[1], sp[2], t, nm, <<>>) :
        sp \in Spans(B, lo, hi), t \in {"code", "comment"}, nm \in {"", name}}
    \cup UNION {{Node(sp[1], sp[2], "code", nm, k) :
                    nm \in {"", name}, k \in LeafLists(B, sp[1], sp[2])} :
                sp \in Spans(B, lo, hi)}

\* no child, one child, or two children in document order
RootChildren(B, lo, hi) ==
    LET second == [e \in B |-> InnerNodes(B, e, hi, "B")]
    IN {<<>>}
        \cup {<<a>> : a \in InnerNodes(B, lo, hi, "A")}
        \cup UNION {{<<a, b>> : b \in second[a.end]} : a \in InnerNodes(B, lo, hi, "A")}

Trees(code, inBytes) ==
    LET B == Boundaries(code, inBytes)
        hi == boundary(code, inBytes, Len(code))
    IN UNION {{Node(lo, hi, "code", "", k) : k \in RootChildren(B, lo, hi)} : lo \in B}

\* a tree whose root ends where neither reading of the text ends
StrayTrees(code) == {Node(0, Len(utf8(code)) + 1, "code", "", <<>>)}

SplitCall ==
    /\ arg.fn = "split"
    /\ ret = NoRet
    /\ ret' = [fn |-> "split", chunks |-> split(arg.tree, arg.code, arg.cfg)]
    /\ UNCHANGED arg
    /\ FnStay

SplitPlainTextCall ==
    /\ arg.fn = "splitPlainText"
    /\ ret = NoRet
    /\ ret' = [fn |-> "splitPlainText", chunks |-> splitPlainText(arg.code, arg.cfg)]
    /\ UNCHANGED arg
    /\ FnStay

InitSplit ==
    /\ Idle
    /\ ret = NoRet
    /\ \/ \E t \in AsciiTexts : \E tr \in Trees(t, FALSE) \cup StrayTrees(t) : \E c \in Configs :
              arg = [fn |-> "split", code |-> t, tree |-> tr, cfg |-> c]
       \/ \E t \in WideTexts : \E tr \in Trees(t, FALSE) \cup Trees(t, TRUE) : \E c \in Configs :
              arg = [fn |-> "split", code |-> t, tree |-> tr, cfg |-> c]
       \/ \E t \in LineTexts, c \in Configs :
              arg = [fn |-> "splitPlainText", code |-> t, cfg |-> c]

NextSplit ==
    \/ SplitCall
    \/ SplitPlainTextCall

SpecSplit == InitSplit /\ [][NextSplit]_vars

----------------------------------------------------------------------------
(* SearchService.applySmartCutoff.  Scores and the score settings are held
   in hundredths, so 25 is 0.25 and a ratio of 50 is 0.5. *)

MaxCands == 3

DEFAULT_CONFIG ==
    [enableSmartTopK |-> TRUE,
     smartTopScoreRatio |-> 50,
     smartTopScoreDeltaAbs |-> 25,
     smartMinScore |-> 25,
     smartMinK |-> 2,
     smartMaxK |-> 8,
     vectorTopM |-> 60,
     rrfK0 |-> 20,
     wVec |-> 6,
     wLex |-> 4,
     fusedTopM |-> 60,
     neighborHops |-> 1,
     breadcrumbExpandLimit |-> 1,
     importFilesPerSeed |-> 5,
     chunksPerImportFile |-> 2,
     decayNeighbor |-> 8,
     decayBreadcrumb |-> 7,
     decayImport |-> 6,
     decayDepth |-> 7]

ChunkKeys == {"f#0", "f#1", "g#0"}
Scores == {10, 20, 27, 30, 60}
Factors == {2, 3}

ScoredChunk(key, score) == [key |-> key, score |-> score]

chunkKey(chunk) == chunk.key

\* the place of x in a list sorted by descending score, behind its equals
RECURSIVE insertSorted(_, _)
insertSorted(sorted, x) ==
    IF sorted = <<>> THEN <<x>>
    ELSE IF Head(sorted).score >= x.score THEN <<Head(sorted)>> \o insertSorted(Tail(sorted), x)
    ELSE <<x>> \o sorted

\* candidates.slice().sort((a, b) => b.score - a.score), a stable sort
RECURSIVE sortByScore(_)
sortByScore(list) ==
    IF list = <<>> THEN <<>>
    ELSE insertSorted(sortByScore(SubSeq(list, 1, Len(list) - 1)), list[Len(list)])

RECURSIVE dedupLoop(_, _, _)
dedupLoop(list, seen, out) ==
    IF list = <<>> THEN out
    ELSE IF chunkKey(Head(list)) \in seen THEN dedupLoop(Tail(list), seen, out)
    ELSE dedupLoop(Tail(list), seen \cup {chunkKey(Head(list))}, Append(out, Head(list)))

dedupChunks(list) == dedupLoop(list, {}, <<>>)

\* the picking loop with the floor as its only test
RECURSIVE pickLoop_FloorOnly(_, _, _, _, _)
pickLoop_FloorOnly(sorted, i, picked, threshold, config) ==
    IF i > Len(sorted) \/ Len(picked) >= config.smartMaxK THEN picked
    ELSE IF sorted[i].score >= config.smartMinScore
         THEN pickLoop_FloorOnly(sorted, i + 1, Append(picked, sorted[i]), threshold, config)
         ELSE picked

\* the picking loop; thresholds are compared in ten-thousandths
RECURSIVE pickLoop(_, _, _, _, _)
pickLoop(sorted, i, picked, threshold, config) ==
    IF i > Len(sorted) \/ Len(picked) >= config.smartMaxK THEN picked
    ELSE LET chunk == sorted[i]
         IN IF i - 1 < config.smartMinK
            THEN IF chunk.score >= config.smartMinScore
                 THEN pickLoop(sorted, i + 1, Append(picked, chunk), threshold, config)
                 ELSE picked
            ELSE IF chunk.score * 100 < threshold THEN picked
                 ELSE pickLoop(sorted, i + 1, Append(picked, chunk), threshold, config)

\* the refill after deduplication
RECURSIVE refillLoop(_, _, _, _)
refillLoop(rest, deduped, seen, config) ==
    IF rest = <<>> \/ Len(deduped) >= Min(config.smartMinK, config.smartMaxK) THEN deduped
    ELSE IF Head(rest).score < config.smartMinScore THEN deduped
    ELSE IF chunkKey(Head(rest)) \in seen THEN refillLoop(Tail(rest), deduped, seen, config)
    ELSE refillLoop(Tail(rest), Append(deduped, Head(rest)),
                    seen \cup {chunkKey(Head(rest))}, config)

applySmartCutoff(candidates, config) ==
    IF ~config.enableSmartTopK THEN candidates
    ELSE IF Len(candidates) = 0 THEN <<>>
    ELSE LET sorted == sortByScore(candidates)
             topScore == sorted[1].score
             ratioThreshold == topScore * config.smartTopScoreRatio
             deltaThreshold == (topScore - config.smartTopScoreDeltaAbs) * 100
             dynamicThreshold == Max(config.smartMinScore * 100,
                                     Min(ratioThreshold, deltaThreshold))
         IN IF topScore < config.smartMinScore THEN <<sorted[1]>>
            ELSE LET picked == pickLoop(sorted, 1, <<>>, dynamicThreshold, config)
                     deduped == dedupChunks(picked)
                 IN IF Len(deduped) < Min(config.smartMinK, config.smartMaxK)
                    THEN refillLoop(sorted, deduped,
                                    {chunkKey(deduped[j]) : j \in 1..Len(deduped)}, config)
                    ELSE deduped

\* every score multiplied by c
scaled(candidates, c) ==
    [i \in 1..Len(candidates) |-> ScoredChunk(candidates[i].key, candidates[i].score * c)]

CandidateLists ==
    UNION {[1..n -> {ScoredChunk(k, sc) : k \in ChunkKeys, sc \in Scores}] : n \in 0..MaxCands}

\* the default settings, and settings with a shorter safe harbour and a cap
\* that the candidate lists reach
CutoffConfigs == {DEFAULT_CONFIG, [DEFAULT_CONFIG EXCEPT !.smartMinK = 1, !.smartMaxK = 2]}

CutoffCall ==
    /\ arg.fn = "applySmartCutoff"
    /\ ret = NoRet
    /\ ret' = [fn |-> "applySmartCutoff",
               picked |-> applySmartCutoff(arg.candidates, arg.config),
               pickedScaled |-> applySmartCutoff(scaled(arg.candidates, arg.c), arg.config)]
    /\ UNCHANGED arg
    /\ FnStay

InitCutoff ==
    /\ Idle
    /\ ret = NoRet
    /\ \E l \in CandidateLists, c \in Factors, config \in CutoffConfigs :
          arg = [fn |-> "applySmartCutoff", candidates |-> l, c |-> c, config |-> config]

NextCutoff == CutoffCall

SpecCutoff == InitCutoff /\ [][NextCutoff]_vars

----------------------------------------------------------------------------
(* ContextPacker: interval merging, slicing and the character budget.  File
   contents are sequences of code units, "n" a line feed. *)

MaxPackChunks == 3

PackChunk(filePath, raw_start, raw_end, score) ==
    [filePath |-> filePath, raw_start |-> raw_start, raw_end |-> raw_end, score |-> score]

\* Array.prototype.sort with (a, b) => key(b) - key(a): descending and stable
sortDescending(list, key) ==
    LET n == Len(list)
        rank(i) == 1 + Cardinality({j \in 1..n : key[j] > key[i] \/ (key[j] = key[i] /\ j < i)})
    IN [r \in 1..n |-> list[CHOOSE i \in 1..n : rank(i) = r]]

\* Array.prototype.sort with (a, b) => key(a) - key(b): ascending and stable
sortAscending(list, key) ==
    LET n == Len(list)
        rank(i) == 1 + Cardinality({j \in 1..n : key[j] < key[i] \/ (key[j] = key[i] /\ j < i)})
    IN [r \in 1..n |-> list[CHOOSE i \in 1..n : rank(i) = r]]

\* the end of a new interval taken one past the chunk's end
newInterval_Padded(chunk) ==
    [start |-> chunk.raw_start, end |-> chunk.raw_end + 1, score |-> chunk.score]

newInterval(chunk) ==
    [start |-> chunk.raw_start, end |-> chunk.raw_end, score |-> chunk.score]

RECURSIVE mergeIntervals(_, _)
mergeIntervals(sorted, intervals) ==
    IF sorted = <<>> THEN intervals
    ELSE LET chunk == Head(sorted)
             n == Len(intervals)
         IN IF n > 0 /\ chunk.raw_start <= intervals[n].end
            THEN mergeIntervals(Tail(sorted),
                     [intervals EXCEPT ![n].end = Max(@, chunk.raw_end),
                                       ![n].score = Max(@, chunk.score)])
            ELSE mergeIntervals(Tail(sorted), Append(intervals, newInterval(chunk)))

offsetToLine(content, offset) ==
    1 + Cardinality({i \in 1..Min(offset, Len(content)) : content[i] = "n"})

mergeAndSlice(chunks, content) ==
    IF Len(chunks) = 0 THEN <<>>
    ELSE LET sorted == sortAscending(chunks, [i \in 1..Len(chunks) |-> chunks[i].raw_start])
             intervals == mergeIntervals(sorted, <<>>)
         IN [i \in 1..Len(intervals) |->
                [filePath |-> chunks[1].filePath,
                 rawStart |-> intervals[i].start,
                 rawEnd |-> intervals[i].end,
                 startLine |-> offsetToLine(content, intervals[i].start),
                 endLine |-> offsetToLine(content, intervals[i].end),
                 score |-> intervals[i].score,
                 text |-> sliceUnits(content, intervals[i].start, intervals[i].end)]]

\* the paths of the chunks in the order of their first appearance
RECURSIVE fileOrder(_, _)
fileOrder(chunks, seen) ==
    IF chunks = <<>> THEN <<>>
    ELSE IF Head(chunks).filePath \in seen THEN fileOrder(Tail(chunks), seen)
    ELSE <<Head(chunks).filePath>> \o fileOrder(Tail(chunks), seen \cup {Head(chunks).filePath})

groupByFile(chunks) ==
    [f \in {chunks[i].filePath : i \in 1..Len(chunks)} |->
        SelectSeq(chunks, LAMBDA c : c.filePath = f)]

RECURSIVE maxScore(_)
maxScore(chunks) ==
    IF Len(chunks) = 1 THEN chunks[1].score
    ELSE Max(chunks[1].score, maxScore(Tail(chunks)))

\* segments are added although the total already passed the budget
RECURSIVE budgetLoop_CheckBefore(_, _, _, _)
budgetLoop_CheckBefore(topSegments, totalChars, budgetedSegments, config) ==
    IF topSegments = <<>> \/ totalChars > config.maxTotalChars
    THEN [totalChars |-> totalChars, segments |-> budgetedSegments]
    ELSE budgetLoop_CheckBefore(Tail(topSegments), totalChars + Len(Head(topSegments).text),
                                Append(budgetedSegments, Head(topSegments)), config)

RECURSIVE budgetLoop(_, _, _, _)
budgetLoop(topSegments, totalChars, budgetedSegments, config) ==
    IF topSegments = <<>> \/ totalChars + Len(Head(topSegments).text) > config.maxTotalChars
    THEN [totalChars |-> totalChars, segments |-> budgetedSegments]
    ELSE budgetLoop(Tail(topSegments), totalChars + Len(Head(topSegments).text),
                    Append(budgetedSegments, Head(topSegments)), config)

topSegmentsOf(segments, config) ==
    LET byScore == sortDescending(segments, [i \in 1..Len(segments) |-> segments[i].score])
        top == SubSeq(byScore, 1, Min(Len(byScore), config.maxSegmentsPerFile))
    IN sortAscending(top, [i \in 1..Len(top) |-> top[i].rawStart])

\* the loop over the files of pack; contentMap[f] is <<>> for a file without
\* a row or without content
RECURSIVE packLoop(_, _, _, _, _, _)
packLoop(sortedFiles, byFile, contentMap, totalChars, result, config) ==
    IF sortedFiles = <<>> THEN result
    ELSE LET filePath == Head(sortedFiles)
             content == contentMap[filePath]
         IN IF content = <<>>
            THEN packLoop(Tail(sortedFiles), byFile, contentMap, totalChars, result, config)
            ELSE LET segments == mergeAndSlice(byFile[filePath], content)
                     b == budgetLoop(topSegmentsOf(segments, config), totalChars, <<>>, config)
                     result1 == IF Len(b.segments) > 0
                                THEN Append(result, [filePath |-> filePath, segments |-> b.segments])
                                ELSE result
                 IN IF b.totalChars >= config.maxTotalChars THEN result1
                    ELSE packLoop(Tail(sortedFiles), byFile, contentMap, b.totalChars,
                                  result1, config)

pack(chunks, contentMap, config) ==
    IF Len(chunks) = 0 THEN <<>>
    ELSE LET byFile == groupByFile(chunks)
             files == fileOrder(chunks, {})
             sortedFiles == sortDescending(files, [i \in 1..Len(files) |-> maxScore(byFile[files[i]])])
         IN packLoop(sortedFiles, byFile, contentMap, 0, <<>>, config)

\* offsets inside the stored content
PackOffsets == 0..3

PackSpans == {sp \in PackOffsets \X PackOffsets : sp[1] <= sp[2]}

\* a chunk of one file, for mergeAndSlice
FileChunk == {PackChunk("f1", sp[1], sp[2], sc) : sp \in PackSpans, sc \in {1, 2}}

\* a chunk of either file with a non-empty span, for pack
MixedChunk ==
    {PackChunk(f, sp[1], sp[2], sc) :
        f \in Paths, sp \in {q \in {0, 1, 2, 4} \X {0, 1, 2, 4} : q[1] < q[2]}, sc \in {1, 2}}

PackContent == <<"x", "n", "x", "x">>

ContentMaps == {[f \in Paths |-> IF f \in S THEN PackContent ELSE <<>>] : S \in {{"f1"}, Paths}}

PackConfigs ==
    {[maxSegmentsPerFile |-> 1, maxTotalChars |-> 3],
     [maxSegmentsPerFile |-> 3, maxTotalChars |-> 4]}

\* the segments handed back as chunks
asChunks(segments) ==
    [i \in 1..Len(segments) |->
        PackChunk(segments[i].filePath, segments[i].rawStart, segments[i].rawEnd,
                  segments[i].score)]

MergeAndSliceCall ==
    /\ arg.fn = "mergeAndSlice"
    /\ ret = NoRet
    /\ ret' = [fn |-> "mergeAndSlice",
               once |-> mergeAndSlice(arg.chunks, arg.content),
               twice |-> mergeAndSlice(asChunks(mergeAndSlice(arg.chunks, arg.content)),
                                       arg.content)]
    /\ UNCHANGED arg
    /\ FnStay

PackCall ==
    /\ arg.fn = "pack"
    /\ ret = NoRet
    /\ ret' = [fn |-> "pack", result |-> pack(arg.chunks, arg.contentMap, arg.config)]
    /\ UNCHANGED arg
    /\ FnStay

InitPack ==
    /\ Idle
    /\ ret = NoRet
    /\ \/ \E n \in 1..MaxPackChunks : \E l \in [1..n -> FileChunk] :
              arg = [fn |-> "mergeAndSlice", chunks |-> l, content |-> PackContent]
       \/ \E n \in 0..MaxPackChunks : \E l \in [1..n -> MixedChunk] :
              \E m \in ContentMaps, c \in PackConfigs :
                  arg = [fn |-> "pack", chunks |-> l, contentMap |-> m, config |-> c]

NextPack ==
    \/ MergeAndSliceCall
    \/ PackCall

SpecPack == InitPack /\ [][NextPack]_vars

----------------------------------------------------------------------------
(* SearchService: hybrid recall and RRF fusion (buildContextPack, steps 1
   to 3).  The weights wVec and wLex are held in tenths.  A score is held in
   units of 1 / (10 * ScoreUnit): ScoreUnit is a multiple of rrfK0 + rank for
   every rank that occurs and of 1 + distance for every distance that
   occurs, so every quotient below is exact. *)

MaxRecs == 3

ScoreUnit == 20 * 21 * 22 * 23 * 24

Distances == {1, 3}

\* the rows the vector table can hold for two versions of f1 and one of f2
StoreRecs == recordsOf("f1", "ha", 2) \cup recordsOf("f1", "hb", 1) \cup recordsOf("f2", "hb", 1)

SearchResult(r, distance) ==
    [file_path |-> r.file_path, chunk_index |-> r.chunk_index, file_hash |-> r.file_hash,
     distance |-> distance]

Candidate(r, score, source, rank) ==
    [filePath |-> r.file_path, chunkIndex |-> r.chunk_index, score |-> score,
     source |-> source, record |-> r, rank |-> rank]

\* 1 / (1 + r._distance)
similarity(distance) == (10 * ScoreUnit) \div (1 + distance)

\* vectorRetrieve: found is what indexer.textSearch returned
vectorRetrieve(found, config) ==
    LET sorted == sortAscending(found, [i \in 1..Len(found) |-> found[i].distance])
        top == SubSeq(sorted, 1, Min(Len(sorted), config.vectorTopM))
    IN [i \in 1..Len(top) |-> Candidate(top[i], similarity(top[i].distance), "vector", i - 1)]

\* VectorStore.getFilesChunks: the rows of the named files, each file's rows
\* sorted by chunk_index
getFilesChunks(table, filePaths) ==
    [f \in filePaths |->
        LET rws == SelectSeq(table, LAMBDA r : r.file_path = f)
        IN sortAscending(rws, [i \in 1..Len(rws) |-> rws[i].chunk_index])]

\* fileChunksMap.get(filePath): chunkIndex -> score, a later hit replacing an
\* earlier one; 0 stands for undefined
chunkScores(chunkResults, filePath) ==
    [ci \in ChunkIdx |->
        LET hits == {i \in 1..Len(chunkResults) : chunkResults[i].filePath = filePath
                                                   /\ chunkResults[i].chunkIndex = ci}
        IN IF hits = {} THEN 0
           ELSE chunkResults[CHOOSE i \in hits : \A j \in hits : j <= i].score]

\* the loop over fileChunksMap that fills allChunks
RECURSIVE allChunksLoop(_, _, _)
allChunksLoop(filePaths, chunkResults, chunksMap) ==
    IF filePaths = <<>> THEN <<>>
    ELSE LET filePath == Head(filePaths)
             scores == chunkScores(chunkResults, filePath)
             hit == SelectSeq(chunksMap[filePath], LAMBDA chunk : scores[chunk.chunk_index] # 0)
         IN [i \in 1..Len(hit) |->
                Candidate(SearchResult(hit[i], 0), scores[hit[i].chunk_index], "lexical", 0)]
            \o allChunksLoop(Tail(filePaths), chunkResults, chunksMap)

\* lexicalRetrieveFromChunksFts: chunkResults is what searchChunksFts returned
lexicalRetrieveFromChunksFts(chunkResults, table) ==
    IF Len(chunkResults) = 0 THEN <<>>
    ELSE LET allFilePaths == fileOrder(chunkResults, {})
             chunksMap == getFilesChunks(table, {allFilePaths[i] : i \in 1..Len(allFilePaths)})
             allChunks == allChunksLoop(allFilePaths, chunkResults, chunksMap)
             sorted == sortByScore(allChunks)
         IN [i \in 1..Len(sorted) |-> [sorted[i] EXCEPT !.rank = i - 1]]

getKey(chunk) == <<chunk.filePath, chunk.chunkIndex>>

\* wVec / (rrfK0 + rank) and wLex / (rrfK0 + rank)
rrfScore(weight, rank, config) == (weight * ScoreUnit) \div (config.rrfK0 + rank)

\* one of the two loops of fuse over a result list; fusedScores is the Map in
\* insertion order
RECURSIVE fuseLoop(_, _, _, _, _)
fuseLoop(found, weight, source, fusedScores, config) ==
    IF found = <<>> THEN fusedScores
    ELSE LET result == Head(found)
             key == getKey(result)
             score == rrfScore(weight, result.rank, config)
             present == {i \in 1..Len(fusedScores) : fusedScores[i].key = key}
         IN fuseLoop(Tail(found), weight, source,
                IF present # {}
                THEN [i \in 1..Len(fusedScores) |->
                        IF i \in present
                        THEN [fusedScores[i] EXCEPT !.score = @ + score,
                                                    !.sources = @ \cup {source}]
                        ELSE fusedScores[i]]
                ELSE Append(fusedScores, [key |-> key, score |-> score, chunk |-> result,
                                          sources |-> {source}]),
                config)

fuse(vectorResults, lexicalResults, config) ==
    LET afterVector == fuseLoop(vectorResults, config.wVec, "vector", <<>>, config)
        fusedScores == fuseLoop(lexicalResults, config.wLex, "lexical", afterVector, config)
        fused == [i \in 1..Len(fusedScores) |->
                    [fusedScores[i].chunk EXCEPT
                        !.score = fusedScores[i].score,
                        !.source = IF Cardinality(fusedScores[i].sources) > 1
                                   THEN "vector" ELSE fusedScores[i].chunk.source]]
    IN sortByScore(fused)

hybridRetrieve(found, chunkResults, table, config) ==
    LET vectorResults == vectorRetrieve(found, config)
        lexicalResults == lexicalRetrieveFromChunksFts(chunkResults, table)
    IN IF Len(lexicalResults) = 0 THEN vectorResults
       ELSE fuse(vectorResults, lexicalResults, config)

\* buildContextPack, step 2
topM(candidates, config) ==
    LET sorted == sortByScore(candidates)
    IN SubSeq(sorted, 1, Min(Len(sorted), config.fusedTopM))

\* The inputs: a vector table, the rows of it that the vector search returned
\* with their distances (0 in dist: the row was not returned), and the
\* chunks_fts hits by descending score (0 in lex: no hit).
Tables == UNION {{t \in [1..n -> StoreRecs] : \A i, j \in 1..n : t[i] = t[j] => i = j} : n \in 0..MaxRecs}

KeySeq == <<[filePath |-> "f1", chunkIndex |-> 0], [filePath |-> "f1", chunkIndex |-> 1], [filePath |-> "f2", chunkIndex |-> 0]>>

textSearchResults(table, dist) ==
    LET returned == SelectSeq([i \in 1..Len(table) |-> SearchResult(table[i], dist[i])],
                              LAMBDA r : r.distance # 0)
    IN returned

searchChunksFtsResults(lex) ==
    LET rws == SelectSeq([i \in 1..Len(KeySeq) |->
                            [filePath |-> KeySeq[i].filePath, chunkIndex |-> KeySeq[i].chunkIndex,
                             score |-> lex[i]]],
                         LAMBDA r : r.score # 0)
    IN sortByScore(rws)

QueryConfigs == {DEFAULT_CONFIG, [DEFAULT_CONFIG EXCEPT !.wVec = 5, !.wLex = 5]}

BuildContextPackCall ==
    /\ arg.fn = "buildContextPack"
    /\ ret = NoRet
    /\ ret' = [fn |-> "buildContextPack",
               vectorResults |-> vectorRetrieve(arg.results, arg.config),
               lexicalResults |-> lexicalRetrieveFromChunksFts(arg.chunkResults, arg.table),
               topM |-> topM(hybridRetrieve(arg.results, arg.chunkResults, arg.table,
                                            arg.config), arg.config)]
    /\ UNCHANGED arg
    /\ FnStay

InitQuery ==
    /\ Idle
    /\ ret = NoRet
    /\ \E table \in Tables :
          \E dist \in [1..Len(table) -> {0} \cup Distances], lex \in [1..Len(KeySeq) -> 0..2] :
             \E config \in QueryConfigs :
                /\ \A i \in 1..Len(KeySeq) :
                      lex[i] # 0 => \E j \in 1..Len(table) :
                                        /\ table[j].file_path = KeySeq[i].filePath
                                        /\ table[j].chunk_index = KeySeq[i].chunkIndex
                /\ arg = [fn |-> "buildContextPack", table |-> table,
                          results |-> textSearchResults(table, dist),
                          chunkResults |-> searchChunksFtsResults(lex), config |-> config]

NextQuery == BuildContextPackCall

SpecQuery == InitQuery /\ [][NextQuery]_vars

----------------------------------------------------------------------------
(* scanner/processor.ts: calls of processFile on one file.  The file is what
   stat and read find at the path, known is the knownFiles entry (NoRow: the
   path is not known). *)

ProcPaths == {"a.ts", "a.json", "package-lock.json", "node_modules/a.json", "node_modules/a.ts"}

ProcFiles == {NoFile} \cup [c : {"a", "b", "x", "z"}, mtime : Mtimes]

KnownMeta ==
    {NoRow} \cup {[hash |-> h, mtime |-> m, size |-> sz, content |-> NULL, vih |-> NULL] :
                     h \in {"ha", "hb", "hz"}, m \in Mtimes, sz \in {SizeOf("a"), SizeOf("x")}}

ProcessFileCall ==
    /\ arg.fn = "processFile"
    /\ ret = NoRet
    /\ ret' = [fn |-> "processFile", result |-> processFile(arg.relPath, arg.file, arg.known)]
    /\ UNCHANGED arg
    /\ FnStay

InitProcess ==
    /\ Idle
    /\ ret = NoRet
    /\ \E p \in ProcPaths, f \in ProcFiles, known \in KnownMeta :
          arg = [fn |-> "processFile", relPath |-> p, file |-> f, known |-> known]

NextProcess == ProcessFileCall

SpecProcess == InitProcess /\ [][NextProcess]_vars

----------------------------------------------------------------------------
(* RerankerClient.rerank: the retry loop around the HTTP request.  A string
   is a sequence of characters, so that includes() is a real substring test;
   a character outside ASCII is written by its code point, "u9519". *)

MaxRetries == 3
MaxQueries == 2

includes(s, pat) == \E i \in 0..(Len(s) - Len(pat)) : SubSeq(s, i + 1, i + Len(pat)) = pat

Digit(d) == CASE d = 0 -> "0" [] d = 1 -> "1" [] d = 2 -> "2" [] d = 3 -> "3" [] d = 4 -> "4" [] d = 5 -> "5" [] d = 6 -> "6" [] d = 7 -> "7" [] d = 8 -> "8" [] d = 9 -> "9"

\* the decimal digits of a status code
RECURSIVE toString(_)
toString(n) == IF n < 10 THEN <<Digit(n)>> ELSE Append(toString(n \div 10), Digit(n % 10))

STR_429 == <<"4", "2", "9">>
STR_rate == <<"r", "a", "t", "e">>
STR_HTTP == <<"H", "T", "T", "P", " ">>
STR_ApiError == <<"R", "e", "r", "a", "n", "k", " ", "A", "P", "I", " ", "u9519", "u8BEF", ":", " ">>
STR_FetchFailed == <<"f", "e", "t", "c", "h", " ", "f", "a", "i", "l", "e", "d">>
STR_BadJson == <<"U", "n", "e", "x", "p", "e", "c", "t", "e", "d", " ", "t", "o", "k", "e", "n", " ", "<", " ", "i", "n", " ", "J", "S", "O", "N", " ", "a", "t", " ", "p", "o", "s", "i", "t", "i", "o", "n", " ", "0">>
STR_Unreachable == <<"R", "e", "r", "a", "n", "k", " ", "u5904", "u7406", "u5F02", "u5E38">>

STR_RateLimitReached == <<"R", "a", "t", "e", " ", "l", "i", "m", "i", "t", " ", "r", "e", "a", "c", "h", "e", "d">>
STR_rateLimitExceeded == <<"r", "a", "t", "e", " ", "l", "i", "m", "i", "t", " ", "e", "x", "c", "e", "e", "d", "e", "d">>
STR_InvalidModel == <<"I", "n", "v", "a", "l", "i", "d", " ", "m", "o", "d", "e", "l">>

\* what the server can answer: the error message of the body, absent or not
BodyErrors == {<<>>, STR_RateLimitReached, STR_rateLimitExceeded, STR_InvalidModel}
Statuses == {200, 429, 500}

\* fetch rejects, or the body is not JSON, or a JSON body arrives
Responses ==
    {[kind |-> "network"]}
    \cup {[kind |-> "badjson", status |-> s] : s \in Statuses}
    \cup {[kind |-> "json", status |-> s, error |-> e] : s \in Statuses, e \in BodyErrors}

\* the try block: the message of the error it throws, <<>> when it returns
tryRequest(resp) ==
    IF resp.kind = "network" THEN STR_FetchFailed
    ELSE IF resp.kind = "badjson" THEN STR_BadJson
    ELSE IF resp.status # 200 \/ resp.error # <<>>
         THEN STR_ApiError \o (IF resp.error # <<>> THEN resp.error
                               ELSE STR_HTTP \o toString(resp.status))
         ELSE <<>>

isRateLimited(message) == includes(message, STR_429) \/ includes(message, STR_rate)

delay(message, attempt) == IF isRateLimited(message) THEN 1000 * attempt ELSE 500 * attempt

Running(retries) == [fn |-> "rerank", pc |-> "fetch", attempt |-> 1, retries |-> retries, responses |-> <<>>, sleeps |-> <<>>, thrown |-> <<>>]

\* rerank(query, documents, options) up to the first request
RerankCall ==
    /\ arg.fn = "rerank"
    /\ ret = NoRet
    /\ ret' = IF arg.documents = 0 THEN [Running(arg.retries) EXCEPT !.pc = "returned"]
              ELSE IF arg.retries < 1
                   THEN [Running(arg.retries) EXCEPT !.pc = "thrown", !.thrown = STR_Unreachable]
                   ELSE Running(arg.retries)
    /\ UNCHANGED arg
    /\ FnStay

RerankArgs(query) == {[fn |-> "rerank", documents |-> d, retries |-> r, query |-> query] : d \in {0, 2}, r \in 0..MaxRetries}

\* the caller's query has ended, with a result or with the error, and the
\* next query comes in
RerankNextQuery ==
    /\ arg.fn = "rerank"
    /\ ret # NoRet
    /\ ret.pc \in {"returned", "thrown"}
    /\ arg.query < MaxQueries
    /\ arg' \in RerankArgs(arg.query + 1)
    /\ ret' = NoRet
    /\ FnStay

\* one pass of the loop body: the request, and the catch block up to sleep
RerankFetch ==
    /\ arg.fn = "rerank"
    /\ ret # NoRet
    /\ ret.pc = "fetch"
    /\ \E resp \in Responses :
          LET message == tryRequest(resp)
              sent == [ret EXCEPT !.responses = Append(@, resp)]
          IN ret' = IF message = <<>> THEN [sent EXCEPT !.pc = "returned"]
                    ELSE IF ret.attempt < ret.retries
                         THEN [sent EXCEPT !.pc = "sleep", !.sleeps = Append(@, delay(message, ret.attempt))]
                         ELSE [sent EXCEPT !.pc = "thrown", !.thrown = message]
    /\ UNCHANGED arg
    /\ FnStay

\* sleep(delay) resolves and the loop goes to the next attempt
RerankWake ==
    /\ arg.fn = "rerank"
    /\ ret # NoRet
    /\ ret.pc = "sleep"
    /\ ret' = [ret EXCEPT !.pc = "fetch", !.attempt = @ + 1]
    /\ UNCHANGED arg
    /\ FnStay

InitRerank ==
    /\ Idle
    /\ ret = NoRet
    /\ arg \in RerankArgs(1)

NextRerank ==
    \/ RerankCall
    \/ RerankFetch
    \/ RerankWake
    \/ RerankNextQuery

SpecRerank == InitRerank /\ [][NextRerank]_vars

----------------------------------------------------------------------------
(* GraphExpander.expand: same-file neighbours (E1), breadcrumb siblings (E2)
   and imports (E3).  Seed scores are in hundredths, decay factors in tenths
   and the scores of expanded chunks in ten-thousandths.  A breadcrumb is the
   sequence of its parts. *)

MaxSeeds == 2

ExpFiles == {"a.ts", "x/index.ts", "y/index.ts"}

\* /\/index\.(ts|tsx|js|jsx|mts|mjs|cts|cjs)$/, __init__.py and mod.rs
isBarrelFile(filePath) == filePath \in {"x/index.ts", "y/index.ts"}

breadcrumbOf(filePath, chunkIndex) ==
    IF filePath = "a.ts" /\ chunkIndex < 2 THEN <<"a.ts", "class Foo", "method">>
    ELSE IF filePath = "x/index.ts" THEN <<"x/index.ts">>
    ELSE <<filePath, "function">>

ExpRecord(file_path, file_hash, chunk_index) ==
    [file_path |-> file_path, file_hash |-> file_hash, chunk_index |-> chunk_index,
     breadcrumb |-> breadcrumbOf(file_path, chunk_index), overlap |-> chunk_index % 2]

Expanded(filePath, chunkIndex, score, source, record) ==
    [filePath |-> filePath, chunkIndex |-> chunkIndex, score |-> score, source |-> source,
     record |-> record]

getChunkKey(chunk) == <<chunk.filePath, chunk.chunkIndex>>

RECURSIVE pow(_, _)
pow(b, n) == IF n = 0 THEN 1 ELSE b * pow(b, n - 1)

\* every new chunk is pushed, whatever the keys hold
addChunks_NoCheck(newChunks, target, keys) ==
    [target |-> target \o newChunks, keys |-> keys \cup {getChunkKey(newChunks[i]) : i \in 1..Len(newChunks)}]

\* addChunks(newChunks, target, keys): the new target and keys
RECURSIVE addChunks(_, _, _)
addChunks(newChunks, target, keys) ==
    IF newChunks = <<>> THEN [target |-> target, keys |-> keys]
    ELSE LET chunk == Head(newChunks)
             key == getChunkKey(chunk)
         IN IF key \notin keys
            THEN addChunks(Tail(newChunks), Append(target, chunk), keys \cup {key})
            ELSE addChunks(Tail(newChunks), target, keys)

\* new Map(sortedChunks.map(c => [c.chunk_index, c])): the last row of an index
chunkMapGet(sortedChunks, index) ==
    LET at == {i \in 1..Len(sortedChunks) : sortedChunks[i].chunk_index = index}
    IN sortedChunks[CHOOSE i \in at : \A j \in at : j <= i]

chunkMapHas(sortedChunks, index) == \E i \in 1..Len(sortedChunks) : sortedChunks[i].chunk_index = index

\* the loop that collects neighborIndices, a Set in insertion order
RECURSIVE neighborLoop(_, _, _, _, _, _)
neighborLoop(rest, delta, seedIndices, sortedChunks, neighborHops, out) ==
    IF rest = <<>> THEN out
    ELSE IF delta > neighborHops
         THEN neighborLoop(Tail(rest), -neighborHops, seedIndices, sortedChunks, neighborHops, out)
    ELSE LET neighborIndex == Head(rest).chunkIndex + delta
             seen == {out[i] : i \in 1..Len(out)}
             add == /\ delta # 0
                    /\ neighborIndex \notin seedIndices
                    /\ neighborIndex \notin seen
                    /\ chunkMapHas(sortedChunks, neighborIndex)
         IN neighborLoop(rest, delta + 1, seedIndices, sortedChunks, neighborHops,
                         IF add THEN Append(out, neighborIndex) ELSE out)

Infinity == 1000000

Abs(x) == IF x < 0 THEN -x ELSE x

\* the nearest seed as the last seed of the file, whatever its distance
nearestLoop_LastSeed(rest, neighborIndex, minDistance, maxSeedScore) ==
    [minDistance |-> Abs(neighborIndex - rest[Len(rest)].chunkIndex), maxSeedScore |-> rest[Len(rest)].score]

\* the loop that finds minDistance and maxSeedScore of a neighbour
RECURSIVE nearestLoop(_, _, _, _)
nearestLoop(rest, neighborIndex, minDistance, maxSeedScore) ==
    IF rest = <<>> THEN [minDistance |-> minDistance, maxSeedScore |-> maxSeedScore]
    ELSE LET seed == Head(rest)
             distance == Abs(neighborIndex - seed.chunkIndex)
         IN IF distance < minDistance THEN nearestLoop(Tail(rest), neighborIndex, distance, seed.score)
            ELSE IF distance = minDistance /\ seed.score > maxSeedScore
                 THEN nearestLoop(Tail(rest), neighborIndex, minDistance, seed.score)
            ELSE nearestLoop(Tail(rest), neighborIndex, minDistance, maxSeedScore)

\* score * decay^n, from hundredths and tenths to ten-thousandths (n <= 2)
decayed(score, decay, n) == score * pow(decay, n) * pow(10, 2 - n)

\* the chunks pushed for one file
neighborsOfFile(filePath, fileSeeds, allChunks, existingKeys, config) ==
    IF Len(allChunks) = 0 THEN <<>>
    ELSE LET sortedChunks == sortAscending(allChunks, [i \in 1..Len(allChunks) |-> allChunks[i].chunk_index])
             seedIndices == {fileSeeds[i].chunkIndex : i \in 1..Len(fileSeeds)}
             neighborIndices == neighborLoop(fileSeeds, -config.neighborHops, seedIndices,
                                             sortedChunks, config.neighborHops, <<>>)
             kept == SelectSeq(neighborIndices, LAMBDA n : <<filePath, n>> \notin existingKeys)
         IN [i \in 1..Len(kept) |->
                LET near == nearestLoop(fileSeeds, kept[i], Infinity, 0)
                IN Expanded(filePath, kept[i],
                            decayed(near.maxSeedScore, config.decayNeighbor, near.minDistance),
                            "neighbor", chunkMapGet(sortedChunks, kept[i]))]

RECURSIVE neighborFiles(_, _, _, _, _)
neighborFiles(files, seedsByFile, allChunksMap, existingKeys, config) ==
    IF files = <<>> THEN <<>>
    ELSE neighborsOfFile(Head(files), seedsByFile[Head(files)], allChunksMap[Head(files)], existingKeys, config)
         \o neighborFiles(Tail(files), seedsByFile, allChunksMap, existingKeys, config)

\* E1
expandNeighbors(seeds, table, existingKeys, config) ==
    LET seedsByFile == groupByFile(seeds)
    IN neighborFiles(fileOrder(seeds, {}), seedsByFile, getFilesChunks(table, DOMAIN seedsByFile),
                     existingKeys, config)

\* "a > b > c" gives "a > b"; a breadcrumb of one part gives null, <<>>
extractBreadcrumbPrefix(breadcrumb) ==
    IF Len(breadcrumb) <= 1 THEN <<>> ELSE SubSeq(breadcrumb, 1, Len(breadcrumb) - 1)

\* the prefixes of prefixGroups in insertion order
RECURSIVE prefixOrder(_, _)
prefixOrder(seeds, seen) ==
    IF seeds = <<>> THEN <<>>
    ELSE LET prefix == extractBreadcrumbPrefix(Head(seeds).record.breadcrumb)
         IN IF prefix = <<>> \/ prefix \in seen THEN prefixOrder(Tail(seeds), seen)
            ELSE <<prefix>> \o prefixOrder(Tail(seeds), seen \cup {prefix})

\* the chunks pushed for one prefix
breadcrumbsOfPrefix(prefix, seeds, table, existingKeys, config) ==
    LET prefixSeeds == SelectSeq(seeds, LAMBDA s : extractBreadcrumbPrefix(s.record.breadcrumb) = prefix)
        filePath == prefixSeeds[1].filePath
        allChunks == getFilesChunks(table, {filePath})[filePath]
        seedIndices == {prefixSeeds[i].chunkIndex : i \in 1..Len(prefixSeeds)}
        matchingChunks == SelectSeq(allChunks, LAMBDA c : extractBreadcrumbPrefix(c.breadcrumb) = prefix)
        fresh == SelectSeq(matchingChunks, LAMBDA c : /\ c.chunk_index \notin seedIndices
                                                       /\ <<filePath, c.chunk_index>> \notin existingKeys)
        newChunks == SubSeq(fresh, 1, Min(Len(fresh), config.breadcrumbExpandLimit))
    IN [i \in 1..Len(newChunks) |->
           Expanded(filePath, newChunks[i].chunk_index, decayed(maxScore(prefixSeeds), config.decayBreadcrumb, 1),
                    "breadcrumb", newChunks[i])]

RECURSIVE breadcrumbPrefixes(_, _, _, _, _)
breadcrumbPrefixes(prefixes, seeds, table, existingKeys, config) ==
    IF prefixes = <<>> THEN <<>>
    ELSE breadcrumbsOfPrefix(Head(prefixes), seeds, table, existingKeys, config)
         \o breadcrumbPrefixes(Tail(prefixes), seeds, table, existingKeys, config)

\* E2
expandBreadcrumb(seeds, table, existingKeys, config) ==
    breadcrumbPrefixes(prefixOrder(seeds, {}), seeds, table, existingKeys, config)

\* buildSeedScoreByFile, as the queue entries made from it
buildSeedScoreByFile(seeds) ==
    LET files == fileOrder(seeds, {})
    IN [i \in 1..Len(files) |->
           [filePath |-> files[i], depth |-> 0,
            seedScore |-> maxScore(SelectSeq(seeds, LAMBDA s : s.filePath = files[i]))]]

\* selectImportChunks; overlap stands for scoreChunkTokenOverlap(chunk, queryTokens)
selectImportChunks(chunks, limit, queryTokens) ==
    IF limit <= 0 THEN <<>>
    ELSE LET sortedByIndex == sortAscending(chunks, [i \in 1..Len(chunks) |-> chunks[i].chunk_index])
             first == SubSeq(sortedByIndex, 1, Min(Len(sortedByIndex), limit))
         IN IF ~queryTokens THEN first
            ELSE LET scored == SelectSeq(sortedByIndex, LAMBDA c : c.overlap > 0)
                     sorted == sortAscending(scored, [i \in 1..Len(scored) |-> -scored[i].overlap])
                     overlapped == SubSeq(sorted, 1, Min(Len(sorted), limit))
                 IN IF Len(overlapped) > 0 THEN overlapped ELSE first

\* resolver.resolve(importStr, filePath, allFilePaths); "" stands for null
resolve(importStr, allFilePaths) == IF importStr \in allFilePaths THEN importStr ELSE ""

\* the loop over importStrs of one queue item
RECURSIVE importLoop(_, _, _, _, _, _, _, _)
importLoop(importStrs, item, importCount, processedImports, result, queue, importDepth1Count, q) ==
    LET perFileLimit == IF item.depth = 0 THEN q.config.importFilesPerSeed
                        ELSE Min(q.config.importFilesPerSeed, 2)
    IN IF importStrs = <<>> \/ importCount >= perFileLimit
       THEN [result |-> result, queue |-> queue, importDepth1Count |-> importDepth1Count]
       ELSE LET importStr == Head(importStrs)
                targetPath == resolve(importStr, q.allFilePaths)
                importChunks == SelectSeq(q.table, LAMBDA r : r.file_path = targetPath)
                selectedChunks == selectImportChunks(importChunks, q.config.chunksPerImportFile, q.queryTokens)
                depthDecay == IF item.depth = 0 THEN 10 ELSE q.config.decayDepth
                fresh == SelectSeq(selectedChunks, LAMBDA c : <<targetPath, c.chunk_index>> \notin q.existingKeys)
                pushed == [i \in 1..Len(fresh) |->
                              Expanded(targetPath, fresh[i].chunk_index,
                                       item.seedScore * q.config.decayImport * depthDecay, "import", fresh[i])]
                barrel == item.depth = 0 /\ isBarrelFile(targetPath)
            IN IF importStr \in processedImports
               THEN importLoop(Tail(importStrs), item, importCount, processedImports,
                               result, queue, importDepth1Count, q)
               ELSE IF targetPath = "" \/ targetPath = item.filePath \/ Len(importChunks) = 0
               THEN importLoop(Tail(importStrs), item, importCount, processedImports \cup {importStr},
                               result, queue, importDepth1Count, q)
               ELSE importLoop(Tail(importStrs), item, importCount + 1, processedImports \cup {importStr},
                               result \o pushed,
                               IF barrel THEN Append(queue, [filePath |-> targetPath, depth |-> 1, seedScore |-> item.seedScore])
                               ELSE queue,
                               importDepth1Count + (IF barrel THEN 1 ELSE 0), q)

SeedKeys == {<<"a.ts", 0>>, <<"a.ts", 1>>, <<"a.ts", 2>>, <<"x/index.ts", 0>>}
SeedScores == {50, 90}

Seed(key, score) == Expanded(key[1], key[2], score, "vector", ExpRecord(key[1], "ha", key[2]))

\* the rows of a.ts, in one or in two versions, and of the two index files
TablesOfA == {<<>>, <<ExpRecord("a.ts", "ha", 0), ExpRecord("a.ts", "ha", 1), ExpRecord("a.ts", "ha", 2)>>, <<ExpRecord("a.ts", "hb", 1), ExpRecord("a.ts", "ha", 0), ExpRecord("a.ts", "ha", 2), ExpRecord("a.ts", "ha", 1)>>, <<ExpRecord("a.ts", "ha", 0), ExpRecord("a.ts", "ha", 2)>>}
TablesOfIndex == {<<>>, <<ExpRecord("x/index.ts", "ha", 0), ExpRecord("y/index.ts", "ha", 1), ExpRecord("y/index.ts", "ha", 0)>>}

ImportGraph(ia, ix, iy) == [f \in ExpFiles |-> IF f = "a.ts" THEN ia ELSE IF f = "x/index.ts" THEN ix ELSE iy]

\* what resolver.extract finds in each file: no imports, a chain, index files
\* that import each other and the seed file, and a file importing itself;
\* "z" resolves to no file
ImportGraphs == {ImportGraph(<<>>, <<>>, <<>>), ImportGraph(<<"x/index.ts">>, <<"y/index.ts">>, <<>>), ImportGraph(<<"x/index.ts", "z", "x/index.ts", "y/index.ts">>, <<"y/index.ts", "a.ts">>, <<"x/index.ts", "a.ts">>), ImportGraph(<<"a.ts", "y/index.ts">>, <<"x/index.ts">>, <<"y/index.ts", "x/index.ts">>), ImportGraph(<<>>, <<"x/index.ts", "y/index.ts", "a.ts">>, <<"a.ts">>)}

ExpandOptions == {[config |-> DEFAULT_CONFIG, queryTokens |-> FALSE], [config |-> [DEFAULT_CONFIG EXCEPT !.neighborHops = 2, !.chunksPerImportFile = 1], queryTokens |-> TRUE]}

\* expand(seeds, queryTokens) on some store and some files, up to the loop of
\* expandImports: E1, E2 and the first queue.
\* neighborChunks is kept as E1 returned it; breadcrumbFound is what E2 finds
\* when only the seeds are excluded
ExpandCall ==
    /\ arg = [fn |-> "expand"]
    /\ ret = NoRet
    /\ \E n \in 0..MaxSeeds :
          \E keys \in [1..n -> SeedKeys], scores \in [1..n -> SeedScores] :
             \E ta \in TablesOfA, ti \in TablesOfIndex, imports \in ImportGraphs, o \in ExpandOptions :
                LET seeds == [i \in 1..n |-> Seed(keys[i], scores[i])]
                    table == ta \o ti
                    stats == [neighborCount |-> 0, breadcrumbCount |-> 0, importCount |-> 0, importDepth1Count |-> 0]
                    existingKeys == {getChunkKey(seeds[i]) : i \in 1..Len(seeds)}
                    neighborChunks == expandNeighbors(seeds, table, existingKeys, o.config)
                    e1 == addChunks(neighborChunks, <<>>, existingKeys)
                    breadcrumbChunks == expandBreadcrumb(seeds, table, e1.keys, o.config)
                    e2 == addChunks(breadcrumbChunks, e1.target, e1.keys)
                IN /\ \A i, j \in 1..n : keys[i] = keys[j] => i = j
                   /\ arg' = [fn |-> "expand", seeds |-> seeds, table |-> table, imports |-> imports,
                              config |-> o.config, queryTokens |-> o.queryTokens]
                   /\ ret' = IF Len(seeds) = 0
                             THEN [fn |-> "expand", pc |-> "done", chunks |-> <<>>, stats |-> stats,
                                   existingKeys |-> {}, queue |-> <<>>, visited |-> {}, result |-> <<>>,
                                   log |-> <<>>, neighborChunks |-> <<>>, breadcrumbFound |-> <<>>]
                             ELSE [fn |-> "expand", pc |-> "imports", chunks |-> e2.target,
                                   stats |-> [stats EXCEPT !.neighborCount = Len(neighborChunks),
                                                           !.breadcrumbCount = Len(breadcrumbChunks)],
                                   existingKeys |-> e2.keys, queue |-> buildSeedScoreByFile(seeds),
                                   visited |-> {}, result |-> <<>>, log |-> <<>>,
                                   neighborChunks |-> neighborChunks,
                                   breadcrumbFound |-> expandBreadcrumb(seeds, table, existingKeys, o.config)]
    /\ FnStay

\* no file counts as visited
seenBefore_Never(visited, filePath) == FALSE

\* visited.has(filePath)
seenBefore(visited, filePath) == filePath \in visited

\* one pass of the while loop of expandImports; log records the files whose
\* import statements were extracted, with the depth
ImportsStep ==
    /\ arg.fn = "expand"
    /\ ret # NoRet
    /\ ret.pc = "imports"
    /\ ret.queue # <<>>
    /\ LET item == Head(ret.queue)
           rest == Tail(ret.queue)
           importStrs == arg.imports[item.filePath]
           q == [config |-> arg.config, allFilePaths |-> ExpFiles, table |-> arg.table,
                 queryTokens |-> arg.queryTokens, existingKeys |-> ret.existingKeys]
           out == importLoop(importStrs, item, 0, {}, ret.result, rest,
                             ret.stats.importDepth1Count, q)
       IN ret' = IF seenBefore(ret.visited, item.filePath) THEN [ret EXCEPT !.queue = rest]
                 ELSE IF item.depth > 0 /\ ~isBarrelFile(item.filePath)
                      THEN [ret EXCEPT !.queue = rest, !.visited = @ \cup {item.filePath}]
                 ELSE IF Len(importStrs) = 0
                      THEN [ret EXCEPT !.queue = rest, !.visited = @ \cup {item.filePath}]
                 ELSE [ret EXCEPT !.queue = out.queue, !.visited = @ \cup {item.filePath},
                                  !.result = out.result,
                                  !.stats.importDepth1Count = out.importDepth1Count,
                                  !.log = Append(@, [filePath |-> item.filePath, depth |-> item.depth])]
    /\ UNCHANGED arg
    /\ FnStay

\* the queue is empty: expandImports returns and expand adds its chunks
ExpandReturn ==
    /\ arg.fn = "expand"
    /\ ret # NoRet
    /\ ret.pc = "imports"
    /\ ret.queue = <<>>
    /\ LET e3 == addChunks(ret.result, ret.chunks, ret.existingKeys)
       IN ret' = [ret EXCEPT !.pc = "done", !.chunks = e3.target, !.existingKeys = e3.keys,
                             !.stats.importCount = Len(ret.result)]
    /\ UNCHANGED arg
    /\ FnStay

InitExpand ==
    /\ Idle
    /\ ret = NoRet
    /\ arg = [fn |-> "expand"]

NextExpand ==
    \/ ExpandCall
    \/ ImportsStep
    \/ ExpandReturn

SpecExpand == InitExpand /\ [][NextExpand]_vars

----------------------------------------------------------------------------
(* The process-wide caches: the Map vectorStores of the vector store module,
   the Map expanders of GraphExpander, and the file-path set an expander
   keeps.  One process runs scans and queries on two projects, one after the
   other.  A VectorStore object is the pair of its project and the number of
   the getVectorStore call that made it; the state of the process is held
   in ret. *)

MaxScans == 2

Projects == {"p1", "p2"}
CachePaths == {"a.ts", "b.ts"}

NoStore == 0
\* allFilePaths: null, or the Set loaded from the files table
NoPaths == [loaded |-> FALSE, paths |-> {}]
NoExpander == [vectorStore |-> NoStore, allFilePaths |-> NoPaths]
NoQuery == [projectId |-> "none"]

\* getVectorStore: the cached store, or a new one that is opened and cached
getVectorStore(c, projectId) ==
    IF c.vectorStores[projectId] # NoStore THEN c
    ELSE LET store == c.made[projectId] + 1
         IN [c EXCEPT !.made[projectId] = store,
                      !.open = @ \cup {<<projectId, store>>},
                      !.vectorStores[projectId] = store]

\* closeAllVectorStores: close() on every cached store, then the Map is cleared
closeAllVectorStores(c) ==
    [c EXCEPT !.open = @ \ {<<p, c.vectorStores[p]>> : p \in Projects},
              !.vectorStores = [p \in Projects |-> NoStore]]

\* a cleanup that also forgets the expanders
closeAll_WithExpanders(c) ==
    [closeAllVectorStores(c) EXCEPT !.expanders = [p \in Projects |-> NoExpander]]

\* the finally block of scan(): closeDb, closeAllIndexers, closeAllVectorStores
closeAll(c) == closeAllVectorStores(c)

\* getGraphExpander: the cached expander, or a new one whose init() takes the
\* project's store from getVectorStore
getGraphExpander(c, projectId) ==
    IF c.expanders[projectId] # NoExpander THEN c
    ELSE LET c1 == getVectorStore(c, projectId)
         IN [c1 EXCEPT !.expanders[projectId] =
                          [vectorStore |-> c1.vectorStores[projectId], allFilePaths |-> NoPaths]]

\* loadFileIndex: SELECT path FROM files, unless a set is already there
loadFileIndex(c, projectId) ==
    IF c.expanders[projectId].allFilePaths.loaded THEN c
    ELSE [c EXCEPT !.expanders[projectId].allFilePaths =
                      [loaded |-> TRUE, paths |-> c.files[projectId]]]

CacheRunning == arg = [fn |-> "caches"] /\ ret # NoRet

\* the process starts: nothing is cached, nothing is indexed
CacheStart ==
    /\ arg = [fn |-> "caches"]
    /\ ret = NoRet
    /\ ret' = [fn |-> "caches",
               files |-> [p \in Projects |-> {}],
               scans |-> [p \in Projects |-> 0],
               made |-> [p \in Projects |-> 0],
               open |-> {},
               vectorStores |-> [p \in Projects |-> NoStore],
               expanders |-> [p \in Projects |-> NoExpander],
               last |-> NoQuery]
    /\ UNCHANGED arg
    /\ FnStay

\* scan(projectId) runs to its end: the files table holds the paths found on
\* disk, and the finally block closes the connections
CacheScan(projectId, paths) ==
    /\ CacheRunning
    /\ ret.scans["p1"] + ret.scans["p2"] < MaxScans
    /\ ret' = [closeAll([ret EXCEPT !.files[projectId] = paths,
                                    !.scans[projectId] = @ + 1])
                 EXCEPT !.last = NoQuery]
    /\ UNCHANGED arg
    /\ FnStay

\* a query: SearchService.init, then expand(seeds), which returns at once
\* without seeds and otherwise asks getGraphExpander for the expander
CacheQuery(projectId, withSeeds) ==
    /\ CacheRunning
    /\ LET c1 == getVectorStore(ret, projectId)
           c2 == IF withSeeds THEN loadFileIndex(getGraphExpander(c1, projectId), projectId)
                 ELSE c1
       IN ret' = [c2 EXCEPT !.last =
                     [projectId |-> projectId,
                      afterScan |-> c2.scans[projectId] > 0,
                      searchStoreOpen |-> <<projectId, c2.vectorStores[projectId]>> \in c2.open,
                      expanded |-> withSeeds,
                      expanderStoreOpen |->
                          <<projectId, c2.expanders[projectId].vectorStore>> \in c2.open,
                      allFilePaths |-> c2.expanders[projectId].allFilePaths.paths,
                      files |-> c2.files[projectId]]]
    /\ UNCHANGED arg
    /\ FnStay

InitCache ==
    /\ Idle
    /\ ret = NoRet
    /\ arg = [fn |-> "caches"]

NextCache ==
    \/ CacheStart
    \/ \E projectId \in Projects, paths \in SUBSET CachePaths : CacheScan(projectId, paths)
    \/ \E projectId \in Projects, withSeeds \in BOOLEAN : CacheQuery(projectId, withSeeds)

SpecCache == InitCache /\ [][NextCache]_vars

----------------------------------------------------------------------------
(* vectorStore: upsertFile and batchUpsertFiles as whole calls, from the table
   before the call to the table after it.  A file of a call is the triple the
   caller passes: path, hash and records; the records are the ChunkRecords of
   the file's chunks, and there are none when the chunker returned no chunk
   for the file. *)

MaxUpserts == 2

UpFile(path, hash, records) == [path |-> path, hash |-> hash, records |-> records]

\* upsertFile(filePath, newHash, records), lines 120-140
upsertFile(v, filePath, newHash, records) ==
    IF records = {} THEN deleteFiles(v, {filePath})
    ELSE deleteStale(tableAdd(v, records), {<<filePath, newHash>>})

\* upsertFile for each file of the list, in list order
RECURSIVE upsertEach(_, _)
upsertEach(v, files) ==
    IF files = <<>> THEN v
    ELSE upsertEach(upsertFile(v, Head(files).path, Head(files).hash, Head(files).records),
                    Tail(files))

\* batchUpsertFiles lines 161-181, with the records the caller passed
RECURSIVE batchesOf(_, _, _, _, _)
batchesOf(files, i, currentBatch, currentRecordCount, batches) ==
    IF i > Len(files)
    THEN IF Len(currentBatch) > 0 THEN Append(batches, currentBatch) ELSE batches
    ELSE LET n == Cardinality(files[i].records)
             flush == Len(currentBatch) >= BATCH_FILES \/ currentRecordCount + n > BATCH_RECORDS
             cur == IF flush THEN <<>> ELSE currentBatch
             cnt == IF flush THEN 0 ELSE currentRecordCount
             acc == IF flush /\ Len(currentBatch) > 0 THEN Append(batches, currentBatch) ELSE batches
         IN batchesOf(files, i + 1, Append(cur, files[i]), cnt + n, acc)

\* a sub-batch in which every file without records loses all its records
upsertBatch_DeleteEmpty(v, batch) ==
    LET recs == UNION {f.records : f \in SeqRange(batch)}
        emptyPaths == {f.path : f \in {g \in SeqRange(batch) : g.records = {}}}
    IN deleteFiles(IF recs = {} THEN v
                   ELSE deleteStale(tableAdd(v, recs),
                                    {<<f.path, f.hash>> : f \in SeqRange(batch)}),
                   emptyPaths)

\* batchUpsertFiles lines 184-212: one sub-batch
upsertBatch(v, batch) ==
    LET recs == UNION {f.records : f \in SeqRange(batch)}
    IN IF recs = {} THEN deleteFiles(v, {f.path : f \in SeqRange(batch)})
       ELSE deleteStale(tableAdd(v, recs), {<<f.path, f.hash>> : f \in SeqRange(batch)})

RECURSIVE upsertBatches(_, _)
upsertBatches(v, batches) ==
    IF batches = <<>> THEN v
    ELSE upsertBatches(upsertBatch(v, Head(batches)), Tail(batches))

\* batchUpsertFiles(files), lines 153-213
batchUpsertFiles(v, files) ==
    IF Len(files) = 0 THEN v
    ELSE upsertBatches(v, batchesOf(files, 1, <<>>, 0, <<>>))

\* the files of a call: a path, the hash of content "a" or "b", and the
\* records of none, one or two chunks
UpFiles ==
    {UpFile(p, h, recordsOf(p, h, n)) : p \in Paths, h \in {"ha", "hb"}, n \in {0, 1, 2}}

\* one file, or two files of different paths
UpFileLists ==
    {<<f>> : f \in UpFiles} \cup
    {<<fg[1], fg[2]>> : fg \in {x \in UpFiles \X UpFiles : x[1].path # x[2].path}}

\* the process starts on an empty table
UpsertStart ==
    /\ arg = [fn |-> "upserts"]
    /\ ret = NoRet
    /\ ret' = [fn |-> "upserts", calls |-> 0, files |-> <<>>, before |-> EmptyTable,
               table |-> EmptyTable, each |-> EmptyTable]
    /\ UNCHANGED arg
    /\ FnStay

\* batchUpsertFiles(files) runs on the table as it is; each is the table
\* that upsertFile, called for every file of the list, would have left
UpsertCall(files) ==
    /\ arg = [fn |-> "upserts"]
    /\ ret # NoRet
    /\ ret.calls < MaxUpserts
    /\ ret' = [fn |-> "upserts", calls |-> ret.calls + 1, files |-> files,
               before |-> ret.table,
               table |-> batchUpsertFiles(ret.table, files),
               each |-> upsertEach(ret.table, files)]
    /\ UNCHANGED arg
    /\ FnStay

InitUpsert ==
    /\ Idle
    /\ ret = NoRet
    /\ arg = [fn |-> "upserts"]

NextUpsert ==
    \/ UpsertStart
    \/ \E files \in UpFileLists : UpsertCall(files)

SpecUpsert == InitUpsert /\ [][NextUpsert]_vars

----------------------------------------------------------------------------
(* Properties of scan() *)

ScanSucceeded == pc = "done"

\* the number of records stored for a path, copies counted
RecordCount(v, p) ==
    LET S == {<<k, i>> \in RecKeys \X (1..MaxCopies) : k.file_path = p /\ i <= v[k]}
    IN Cardinality(S)

\* every chunk record of content c is stored for path p
VersionStored(v, p, c) ==
    \A k \in recordsOf(p, sha256(c), NumChunks(c)) : v[k] >= 1

\* C1: after a successful scan with vector indexing, every row with content has
\* vector_index_hash = hash, and every stored record's file_hash is the hash
\* of some current row
C1_Converged ==
    (ScanSucceeded /\ opts.vectorIndex /\ ~hist.dirty) =>
        /\ \A p \in Paths : (rows[p] # NoRow /\ rows[p].content # NULL) => rows[p].vih = rows[p].hash
        /\ \A k \in RecKeys : vec[k] > 0 => \E p \in Paths : rows[p] # NoRow /\ rows[p].hash = k.file_hash

\* C2: in every state, a row with vector_index_hash = hash has the chunk
\* records of that hash stored for its path
C2_IndexHashMeansVectors ==
    \A p \in Paths :
        (rows[p] # NoRow /\ rows[p].vih = rows[p].hash) => VersionStored(vec, p, rows[p].content)

\* C5: after a scan died between a file's vector upsert and the write of its
\* vector_index_hash, the next scan leaves vector_index_hash = hash, as many
\* records as the file has chunks, and no chunk_id twice
C5_TornUpsertHeals ==
    (ScanSucceeded /\ opts.vectorIndex) =>
        \A p \in hist.torn0 :
            /\ rows[p] # NoRow
            /\ rows[p].vih = rows[p].hash
            /\ RecordCount(vec, p) = NumChunks(rows[p].content)
            /\ \A k \in RecKeys : k.file_path = p => vec[k] <= 1

\* C6: a file unchanged on disk whose row needs indexing and whose vectors are
\* missing is classified unchanged, is indexed by the scan, and afterwards has
\* its vectors stored and vector_index_hash = hash
C6_SelfHeal ==
    (ScanSucceeded /\ opts.vectorIndex /\ ~opts.force /\ ~hist.dirty) =>
        \A p \in hist.bare0 :
            (/\ rows[p] # NoRow
             /\ disk[p] # NoFile
             /\ sha256(disk[p].c) = rows[p].hash
             /\ p \in healing)
            => /\ results[p].status = "unchanged"
               /\ p \in ixFiles
               /\ Stats.indexed >= 1
               /\ VersionStored(vec, p, rows[p].content)
               /\ HasVectors(vec, p)
               /\ rows[p].vih = rows[p].hash

\* C7: a second scan with no file system change after a successful first scan
\* classifies every indexed file as unchanged, reports added = modified =
\* deleted = 0, hands nothing to the indexer and leaves countRows unchanged
SecondScanQuiet(exempt) ==
    /\ \A p \in Paths : rows[p] # NoRow => results[p].status \in {"unchanged"} \cup exempt
    /\ Stats.added = 0 /\ Stats.modified = 0 /\ Stats.deleted = 0
    /\ (toAdd(results) \cup healing \cup deleted) = {}
    /\ count(vec) = hist.count0

----------------------------------------------------------------------------
(* Properties of the vector store *)

\* some version of the file is stored with all its records
HasCompleteVersion(v, p) ==
    \E c \in Contents : NumChunks(c) > 0 /\ VersionStored(v, p, c)

CallFiles == UNION {SeqRange(vscall.batches[i]) : i \in 1..Len(vscall.batches)}

\* C3: while upsertFile or batchUpsertFiles runs for a file with a non-empty
\* record list, no step (a crash included) takes the file's last complete
\* version out of the store: the insert comes before the delete
C3_NeverMissing ==
    [][\A f \in CallFiles :
          (NumChunks(f.c) > 0 /\ HasCompleteVersion(vec, f.path))
              => HasCompleteVersion(vec', f.path)]_vars

C3_Witness ==
    /\ vscall.step = "delete"
    /\ \E f \in CallFiles :
          /\ NumChunks(f.c) > 0
          /\ \E c \in Contents : c # f.c /\ NumChunks(c) > 0 /\ VersionStored(vec, f.path, c)
          /\ VersionStored(vec, f.path, f.c)

\* C4: after a successful upsert no two stored records share a chunk_id and
\* no two share (file_path, chunk_index)
C4_UniqueAfterUpsert ==
    vscall.step = "done" =>
        /\ \A k \in RecKeys : vec[k] <= 1
        /\ \A k1, k2 \in RecKeys :
              (k1 # k2 /\ vec[k1] > 0 /\ vec[k2] > 0)
                  => ~(k1.file_path = k2.file_path /\ k1.chunk_index = k2.chunk_index)

\* the paths named in the running call
CallPaths == {f.path : f \in CallFiles}

\* C23: when upsertFile or batchUpsertFiles has succeeded for (p, h, records),
\* no record of p with another file_hash is left, and no step of the call
\* changes the records of a path the call does not name
C23_UpsertReplacesOnlyNamed ==
    /\ [](vscall.step = "done" =>
            \A f \in CallFiles : \A k \in RecKeys :
                (k.file_path = f.path /\ k.file_hash # sha256(f.c)) => vec[k] = 0)
    /\ [][\A k \in RecKeys : k.file_path \notin CallPaths => vec'[k] = vec[k]]_vars

\* a call has succeeded for a file that had another version stored when the
\* delete ran (the new version alone is left), beside an unnamed path with
\* records
C23_Witness ==
    /\ vscall.step = "done"
    /\ \E f \in CallFiles : NumChunks(f.c) > 0 /\ VersionStored(vec, f.path, f.c)
    /\ \E k \in RecKeys : k.file_path \notin CallPaths /\ vec[k] > 0

----------------------------------------------------------------------------
(* Properties of the lock *)

\* between a successful acquireLock and the releaseLock that follows it
Holding(p) == lk[p].acquired /\ lk[p].pc \in {"scan_rows", "scan_vec"}

\* C8: while every process is alive and no lock can be older than
\* LOCK_TIMEOUT_MS, at most one process at a time is between a successful
\* acquireLock and its releaseLock
C8_MutualExclusion ==
    (now <= LOCK_TIMEOUT_MS /\ \A p \in Procs : alive[p])
        => Cardinality({p \in Procs : Holding(p)}) <= 1

C10_InvalidNeverBlocks ==
    \A p \in Procs :
        (lk[p].first \in {"absent", "dead", "old"} /\ lk[p].alone)
            => /\ lk[p].pc \in {"write", "verify", "scan_rows", "scan_vec",
                               "release", "unlink", "done"}
               /\ lk[p].pc \notin {"write", "verify"} => lk[p].acquired

C10_Witness ==
    \E p \in Procs :
        /\ lk[p].first = "old"
        /\ lk[p].alone
        /\ Holding(p)

\* C11: a caller whose every probe finds the lock held by another live process
\* never writes or removes the lock file and never runs fn, and withLock
\* throws only once timeoutMs has passed since the call
C11_TimeoutLeavesLock ==
    \A p \in Procs :
        (lk[p].first # "none" /\ lk[p].blocked)
            => /\ lk[p].pc \in {"check", "sleep", "failed"}
               /\ ~lk[p].acquired
               /\ lk[p].pc = "failed" => now - lk[p].startTime >= lk[p].timeoutMs

C11_Witness ==
    \E p \in Procs :
        /\ lk[p].pc = "failed" /\ lk[p].blocked /\ lk[p].first = "live"
        /\ lk[p].timeoutMs = 2 * LOCK_CHECK_INTERVAL_MS
        /\ lockFile # NoLock /\ lockFile.pid # p /\ alive[lockFile.pid]

\* C12: no step of a release removes a lock file that records another
\* process's pid: the file that disappears names the process that unlinks it
C12_ReleaseOwnOnly ==
    [][(lockFile # NoLock /\ lockFile' = NoLock) => lk[lockFile.pid].pc = "unlink"]_vars

----------------------------------------------------------------------------
(* Properties of the embedding dimensions *)

\* C13: when a scan with vector indexing completes, no stored vector has a
\* dimension other than the configured one, whatever scans ran or died before
C13_OldDimensionGone ==
    (pc = "done" /\ opts.vectorIndex) => \A k \in vdim : k.dim = dims

----------------------------------------------------------------------------
(* Properties of deletion *)

\* C14: when a scan with vector indexing has completed, a path that was not on
\* disk during the scan has no files row, no files_fts row and no vector record
C14_RemovedFileGone ==
    (ScanSucceeded /\ opts.vectorIndex /\ ~hist.dirty) =>
        \A p \in Paths :
            disk[p] = NoFile => (rows[p] = NoRow /\ p \notin fts /\ ~HasVectors(vec, p))


\* C17: in the utf16 and the utf8 domain, for offsets a <= b <= c inside or
\* outside the text, nws(a,b) + nws(b,c) = nws(a,c)
C17_NwsAdditive ==
    (ret.fn = "nws" /\ domainOf(arg.code, arg.endIndex) \in {"utf16", "utf8"})
        => ret.ab + ret.bc = ret.ac

\* a byte-indexed text with a surrogate pair, a inside a character, c past the end
C17_Witness ==
    /\ ret.fn = "nws"
    /\ domainOf(arg.code, arg.endIndex) = "utf8"
    /\ "g" \in {arg.code[i] : i \in DOMAIN arg.code}
    /\ arg.a < arg.b /\ arg.b < arg.c
    /\ arg.c > Len(utf8(arg.code))
    /\ ret.ab > 0 /\ ret.bc > 0

\* the end of the file in the index domain the chunks were cut in
FileEnd ==
    IF arg.fn = "split" /\ domainOf(arg.code, arg.tree.end) = "utf8"
    THEN Len(utf8(arg.code)) ELSE Len(utf16(arg.code))

\* C15: the rawSpans of a chunk list from split or splitPlainText start at 0,
\* each starts where the previous one ends, the last ends at the file end, and
\* none has start > end
C15_RawSpansCover ==
    ret.fn \in {"split", "splitPlainText"} =>
        LET chunks == ret.chunks
        IN /\ Len(chunks) > 0
           /\ chunks[1].rawSpan.start = 0
           /\ \A i \in 2..Len(chunks) : chunks[i].rawSpan.start = chunks[i - 1].rawSpan.end
           /\ chunks[Len(chunks)].rawSpan.end = FileEnd
           /\ \A i \in 1..Len(chunks) : chunks[i].rawSpan.start <= chunks[i].rawSpan.end

\* a byte-indexed tree cut into two chunks with a gap before the second
C15_Witness ==
    /\ ret.fn = "split"
    /\ domainOf(arg.code, arg.tree.end) = "utf8"
    /\ Len(ret.chunks) = 2
    /\ ret.chunks[2].rawSpan.start < ret.chunks[2].startIndex

\* C16: every chunk from split has vectorSpan.start <= startIndex,
\* vectorSpan.end = endIndex and startIndex - vectorSpan.start <= a quarter
\* of maxRawChars; the first chunk's vectorSpan is [startIndex, endIndex)
C16_VectorSpanBounds ==
    ret.fn = "split" =>
        /\ \A i \in 1..Len(ret.chunks) :
              LET c == ret.chunks[i]
              IN /\ c.vectorSpan.start <= c.startIndex
                 /\ c.vectorSpan.end = c.endIndex
                 /\ 4 * (c.startIndex - c.vectorSpan.start) <= arg.cfg.maxRawChars
        /\ Len(ret.chunks) > 0 =>
              ret.chunks[1].vectorSpan = Span(ret.chunks[1].startIndex, ret.chunks[1].endIndex)

\* a later chunk whose overlap would reach back further than the quarter
C16_Witness ==
    /\ ret.fn = "split"
    /\ domainOf(arg.code, arg.tree.end) # "unknown"
    /\ \E i \in 2..Len(ret.chunks) :
          LET c == ret.chunks[i]
          IN /\ c.vectorSpan.start = c.startIndex
             /\ 4 * (c.startIndex
                       - findOverlapStart(c.startIndex, arg.cfg.chunkOverlap, arg.code, arg.tree.end))
                  > arg.cfg.maxRawChars

\* the chunks of a list, without their scores
KeysOf(list) == {chunkKey(list[i]) : i \in 1..Len(list)}

\* C18: applySmartCutoff selects the same set of chunks when every score is
\* multiplied by a positive constant
C18_ScaleInvariant ==
    ret.fn = "applySmartCutoff" => KeysOf(ret.picked) = KeysOf(ret.pickedScaled)

\* the starts, ends and scores of a segment list
Extents(segments) ==
    [i \in 1..Len(segments) |->
        <<segments[i].rawStart, segments[i].rawEnd, segments[i].score>>]

\* C19: the intervals mergeAndSlice produces, fed back as chunks with the same
\* raw_start, raw_end and score, come out with the same starts, ends and scores
C19_MergeIdempotent ==
    ret.fn = "mergeAndSlice" => Extents(ret.twice) = Extents(ret.once)

\* three chunks, two of them merged, one left apart
C19_Witness ==
    /\ ret.fn = "mergeAndSlice"
    /\ Len(arg.chunks) = 3
    /\ Len(ret.once) = 2
    /\ ret.once[1].rawEnd > arg.chunks[1].raw_end
    /\ ret.once[1].score > arg.chunks[1].score

RECURSIVE totalTextChars(_)
totalTextChars(segments) ==
    IF segments = <<>> THEN 0
    ELSE Len(Head(segments).text) + totalTextChars(Tail(segments))

RECURSIVE totalPackChars(_)
totalPackChars(result) ==
    IF result = <<>> THEN 0
    ELSE totalTextChars(Head(result).segments) + totalPackChars(Tail(result))

\* C20: the segment texts returned by pack have at most maxTotalChars
\* characters in total
C20_WithinBudget ==
    ret.fn = "pack" => totalPackChars(ret.result) <= arg.config.maxTotalChars

\* segments of two files are returned, and without the budget there would be more text
C20_Witness ==
    /\ ret.fn = "pack"
    /\ Len(ret.result) = 2
    /\ totalPackChars(pack(arg.chunks, arg.contentMap,
                           [arg.config EXCEPT !.maxTotalChars = 2 * Len(PackContent) * MaxPackChunks]))
          > arg.config.maxTotalChars

----------------------------------------------------------------------------
(* Properties of hybrid recall and fusion *)

\* f1 before f2, and within a file the lower chunk_index first
keyNotAfter(a, b) ==
    \/ a.filePath = "f1" /\ b.filePath = "f2"
    \/ a.filePath = b.filePath /\ a.chunkIndex <= b.chunkIndex

\* C21: candidates of equal fused score are ordered by ascending
\* (file_path, chunk_index), in whatever order the recall branches returned
\* them
C21_TieBreakByKey ==
    ret.fn = "buildContextPack" =>
        \A i, j \in 1..Len(ret.topM) :
            (i < j /\ ret.topM[i].score = ret.topM[j].score)
                => keyNotAfter(ret.topM[i], ret.topM[j])

\* the contributions a candidate can have received: nothing, or one
\* contribution of a branch at one of its ranks
contributions(weight, found, config) ==
    {0} \cup {rrfScore(weight, found[i].rank, config) : i \in 1..Len(found)}

\* C29: with old and new versions of a file in the vector table, fusion
\* yields at most one candidate per (file_path, chunk_index), and its score
\* is the sum of at most one vector and at most one lexical contribution
C29_OneContributionPerBranch ==
    (ret.fn = "buildContextPack" /\ Len(ret.lexicalResults) > 0) =>
        /\ \A i, j \in 1..Len(ret.topM) : getKey(ret.topM[i]) = getKey(ret.topM[j]) => i = j
        /\ \A i \in 1..Len(ret.topM) :
              \E v \in contributions(arg.config.wVec, ret.vectorResults, arg.config),
                 l \in contributions(arg.config.wLex, ret.lexicalResults, arg.config) :
                    ret.topM[i].score = v + l

\* C22: a file whose non-whitespace size is at most maxChunkSize and that
\* consists of one top-level named function ("A") gives exactly one chunk,
\* with contextPath [filePath, "A"], rawSpan [0, len] and vectorSpan [0, len]
C22_SingleFunctionChunk ==
    (/\ ret.fn = "split"
     /\ domainOf(arg.code, arg.tree.end) \in {"utf16", "utf8"}
     /\ getTotalNws(arg.code) <= arg.cfg.maxChunkSize
     /\ arg.tree.start = 0
     /\ Len(arg.tree.children) = 1
     /\ arg.tree.children[1].name = "A"
     /\ arg.tree.children[1].type = "code"
     /\ arg.tree.children[1].start = 0
     /\ arg.tree.children[1].end = arg.tree.end)
        => /\ Len(ret.chunks) = 1
           /\ ret.chunks[1].contextPath = <<FilePath, "A">>
           /\ ret.chunks[1].rawSpan = Span(0, FileEnd)
           /\ ret.chunks[1].vectorSpan = Span(0, FileEnd)

----------------------------------------------------------------------------
(* Properties of the reconcile step *)

\* C24: the reconcile step leaves every added or modified file's row with
\* vector_index_hash NULL (stated right after batchUpsert has written the rows)
C24_ReconcileClearsIndexHash ==
    pc = "upsert_fts" => \A p \in toAdd(results) : rows[p].vih = NULL

\* C25: the step of batchUpsert or batchDelete that writes or removes a files
\* row brings files_fts along: after it the path is in files_fts exactly if
\* it has a files row
C25_FtsCommitsWithFiles ==
    [][\A p \in Paths :
          (pc \in {"upsert", "delete"} /\ rows'[p] # rows[p])
              => (rows'[p] # NoRow <=> p \in fts')]_vars

\* the files that were processed without a result to reconcile
Failed == {p \in Paths : results[p].status \in {"skipped", "error"}}

----------------------------------------------------------------------------
(* Properties of processFile *)

\* the status the rules give, taken in their order, for a file that stat and
\* read can reach
statusByRule(p, f, known) ==
    CASE SizeOf(f.c) > 100 * 1024 -> "skipped"
      [] known # NoRow /\ known.mtime = f.mtime /\ known.size = SizeOf(f.c) -> "unchanged"
      [] HasNul(f.c) -> "skipped"
      [] known # NoRow /\ known.hash = sha256(f.c) -> "unchanged"
      [] p \in {"package-lock.json", "node_modules/a.json"} -> "skipped"
      [] known # NoRow -> "modified"
      [] OTHER -> "added"

----------------------------------------------------------------------------
(* Properties of applySmartCutoff on lists without duplicates *)

\* the list is in descending score order and no two candidates share a key
SortedAndDistinct(list) ==
    /\ \A i \in 1..(Len(list) - 1) : list[i].score >= list[i + 1].score
    /\ \A i, j \in 1..Len(list) : chunkKey(list[i]) = chunkKey(list[j]) => i = j

\* dyn = max(floor, min(top * ratio, top - deltaAbs)), in ten-thousandths
dynOf(top, config) ==
    Max(config.smartMinScore * 100,
        Min(top * config.smartTopScoreRatio, (top - config.smartTopScoreDeltaAbs) * 100))

\* position i (from 0) passes: the floor inside the first minK, dyn after them
passes(list, i, config) ==
    IF i < config.smartMinK THEN list[i + 1].score >= config.smartMinScore
    ELSE list[i + 1].score * 100 >= dynOf(list[1].score, config)

\* the length of the longest prefix in which every position passes
prefixLength(list, config) ==
    CHOOSE n \in 0..Len(list) :
        /\ \A i \in 0..(n - 1) : passes(list, i, config)
        /\ n < Len(list) => ~passes(list, n, config)

\* C28: on a score-descending list without duplicate keys applySmartCutoff
\* returns the top candidate alone when top < floor, and otherwise the longest
\* prefix whose first minK positions reach the floor and whose later
\* positions reach dyn, cut to maxK entries
C28_LongestPassingPrefix ==
    (ret.fn = "applySmartCutoff" /\ SortedAndDistinct(arg.candidates)
                                 /\ Len(arg.candidates) > 0) =>
        IF arg.candidates[1].score < arg.config.smartMinScore
        THEN ret.picked = <<arg.candidates[1]>>
        ELSE ret.picked = SubSeq(arg.candidates, 1,
                                 Min(prefixLength(arg.candidates, arg.config),
                                     arg.config.smartMaxK))

\* three candidates above the floor of which the third falls below dyn
C28_Witness ==
    /\ ret.fn = "applySmartCutoff"
    /\ SortedAndDistinct(arg.candidates)
    /\ Len(arg.candidates) = 3
    /\ arg.candidates[3].score >= arg.config.smartMinScore
    /\ arg.config.smartMaxK > 3
    /\ Len(ret.picked) = 2

----------------------------------------------------------------------------
(* Properties of RerankerClient.rerank *)

InRerank == arg.fn = "rerank" /\ ret # NoRet

failed(resp) == tryRequest(resp) # <<>>

\* the server answered with status 429, Too Many Requests, or with a message
\* about the rate limit
rateLimitError(resp) ==
    /\ resp.kind # "network"
    /\ \/ resp.status = 429
       \/ resp.kind = "json" /\ resp.error \in {STR_RateLimitReached, STR_rateLimitExceeded}

\* at most retries requests
AtMostRetries == InRerank => Len(ret.responses) <= ret.retries

\* a successful response is the last request and is what rerank returns
FirstSuccessReturns ==
    InRerank => \A n \in 1..Len(ret.responses) :
        ~failed(ret.responses[n]) => (n = Len(ret.responses) /\ ret.pc = "returned")

\* one sleep after each failed attempt but the last of the retries
SleepsBetweenAttempts ==
    InRerank =>
        /\ Len(ret.sleeps) < Max(ret.retries, 1)
        /\ Len(ret.sleeps) = Cardinality({n \in 1..Len(ret.responses) : failed(ret.responses[n]) /\ n < ret.retries})

\* the sleep after failed attempt n is 500 * n, or 1000 * n after a 429
SleepLengths ==
    InRerank => \A n \in 1..Len(ret.sleeps) :
        ret.sleeps[n] = IF rateLimitError(ret.responses[n]) THEN 1000 * n ELSE 500 * n

\* when every attempt failed rerank throws the error of the last one
ThrowsLastError ==
    (InRerank /\ ret.retries >= 1 /\ Len(ret.responses) = ret.retries /\ failed(ret.responses[ret.retries])) =>
        /\ ret.pc = "thrown"
        /\ ret.thrown = tryRequest(ret.responses[ret.retries])

\* C30: rerank sends at most retries requests, returns the first successful
\* response without a further request, sleeps 500 * n ms (1000 * n ms after
\* a rate-limit error) after failed attempt n and not after the last attempt,
\* and throws the last attempt's error when every attempt failed
C30_RetryWithBackoff ==
    /\ AtMostRetries
    /\ FirstSuccessReturns
    /\ SleepsBetweenAttempts
    /\ SleepLengths
    /\ ThrowsLastError

----------------------------------------------------------------------------
(* Properties of GraphExpander.expand *)

ExpandDone == arg.fn = "expand" /\ ret # NoRet /\ ret.pc = "done"

seedKeysOf(seeds) == {getChunkKey(seeds[i]) : i \in 1..Len(seeds)}

\* what the three expansions found, one after the other
foundInOrder == ret.neighborChunks \o ret.breadcrumbFound \o ret.result

\* the first entry of a list with the key
firstWithKey(list, key) ==
    list[CHOOSE i \in 1..Len(list) : /\ getChunkKey(list[i]) = key
                                     /\ \A j \in 1..(i - 1) : getChunkKey(list[j]) # key]

\* C31: expand returns no chunk with the key of a seed and no two chunks with
\* the same key, and of a chunk found by several expansions the entry of the
\* earliest expansion, in the order E1, E2, E3, is the one returned
C31_DedupKeepsEarliest ==
    ExpandDone =>
        LET found == foundInOrder
            keys == [i \in 1..Len(ret.chunks) |-> getChunkKey(ret.chunks[i])]
        IN /\ \A i \in 1..Len(keys) : keys[i] \notin seedKeysOf(arg.seeds)
           /\ \A i, j \in 1..Len(keys) : keys[i] = keys[j] => i = j
           /\ \A i \in 1..Len(keys) :
                 /\ \E k \in 1..Len(found) : getChunkKey(found[k]) = keys[i]
                 /\ ret.chunks[i] = firstWithKey(found, keys[i])

\* a chunk found by two expansions with different entries is returned
C31_Witness ==
    /\ ExpandDone
    /\ \E i \in 1..Len(ret.chunks) : \E k \in 1..Len(foundInOrder) :
          /\ getChunkKey(foundInOrder[k]) = getChunkKey(ret.chunks[i])
          /\ foundInOrder[k].source # ret.chunks[i].source

InExpand == arg.fn = "expand" /\ ret # NoRet

\* what the log of processed imports may hold
ImportsOnceAndShallow ==
    InExpand =>
        /\ \A i, j \in 1..Len(ret.log) : ret.log[i].filePath = ret.log[j].filePath => i = j
        /\ \A i \in 1..Len(ret.log) :
              /\ ret.log[i].depth <= 1
              /\ ret.log[i].depth = 1 => isBarrelFile(ret.log[i].filePath)

\* the work left in a call: the queue entries, each entry of depth 0 counted
\* with the entries it may still add
workLeft(r) ==
    IF r.pc = "done" THEN 0
    ELSE 1 + Len(r.queue)
           + arg.config.importFilesPerSeed * Cardinality({i \in 1..Len(r.queue) : r.queue[i].depth = 0})

\* C32: expandImports terminates for every import graph (every pass of its
\* loop, and the return, leave less work, and the work is never negative), the
\* imports of a file are processed at most once in a call, no file is expanded
\* at a depth above 1, and at depth 1 only barrel files are expanded
C32_ImportsTerminate ==
    /\ []ImportsOnceAndShallow
    /\ [][InExpand => (workLeft(ret') < workLeft(ret) /\ workLeft(ret') >= 0)]_vars

\* a call has ended on a graph in which two index files import each other,
\* with a barrel file expanded at depth 1
C32_Witness ==
    /\ ExpandDone
    /\ "x/index.ts" \in {arg.imports["y/index.ts"][i] : i \in 1..Len(arg.imports["y/index.ts"])}
    /\ "y/index.ts" \in {arg.imports["x/index.ts"][i] : i \in 1..Len(arg.imports["x/index.ts"])}
    /\ \E i \in 1..Len(ret.log) : ret.log[i].depth = 1

seedsOfFile(filePath) == {i \in 1..Len(arg.seeds) : arg.seeds[i].filePath = filePath}

distanceTo(chunk, i) == Abs(chunk.chunkIndex - arg.seeds[i].chunkIndex)

\* the seeds of the chunk's file that are nearest to the chunk
nearestSeeds(chunk) ==
    {i \in seedsOfFile(chunk.filePath) :
        \A j \in seedsOfFile(chunk.filePath) : distanceTo(chunk, i) <= distanceTo(chunk, j)}

maxScoreOf(S) == CHOOSE m \in {arg.seeds[i].score : i \in S} : \A i \in S : arg.seeds[i].score <= m

\* C33 as stated: every chunk added by E1 has the score (maximum score among
\* all seeds of its file) * decayNeighbor^(distance to a seed it neighbours)
C33_MaxSeedScoreOfFile ==
    InExpand => \A k \in 1..Len(ret.neighborChunks) :
        LET chunk == ret.neighborChunks[k]
        IN \E i \in seedsOfFile(chunk.filePath) :
              /\ distanceTo(chunk, i) <= arg.config.neighborHops
              /\ chunk.score = decayed(maxScoreOf(seedsOfFile(chunk.filePath)),
                                       arg.config.decayNeighbor, distanceTo(chunk, i))

\* C33 amended: every chunk added by E1 has the score (maximum score among
\* the seeds of its file that are nearest to it) * decayNeighbor^(distance to
\* those nearest seeds)
C33_NearestSeedScore ==
    InExpand => \A k \in 1..Len(ret.neighborChunks) :
        LET chunk == ret.neighborChunks[k]
            near == nearestSeeds(chunk)
        IN \A i \in near :
              chunk.score = decayed(maxScoreOf(near), arg.config.decayNeighbor, distanceTo(chunk, i))

\* E1 added a chunk whose nearest seed is not the best seed of the file, and
\* one with two nearest seeds of different scores
C33_Witness ==
    /\ InExpand
    /\ \E k \in 1..Len(ret.neighborChunks) :
          maxScoreOf(nearestSeeds(ret.neighborChunks[k])) < maxScoreOf(seedsOfFile(ret.neighborChunks[k].filePath))

----------------------------------------------------------------------------
(* Properties of mergeAdjacentWindows.  A call of split makes one call of
   mergeAdjacentWindows for every node that is larger than maxChunkSize and
   has children; each call is the pair of the windows it was given and the
   windows it returned. *)

\* visitNode with the calls it makes: the windows it returns and, for every
\* call of mergeAdjacentWindows below the node, the windows given and returned
RECURSIVE visitTraced(_, _, _, _, _)
RECURSIVE visitChildrenTraced(_, _, _, _, _)
visitChildrenTraced(children, context, cfg, code, endIndex) ==
    IF children = <<>> THEN [windows |-> <<>>, calls |-> {}]
    ELSE LET h == visitTraced(Head(children), context, cfg, code, endIndex)
             t == visitChildrenTraced(Tail(children), context, cfg, code, endIndex)
         IN [windows |-> h.windows \o t.windows, calls |-> h.calls \cup t.calls]

visitTraced(node, context, cfg, code, endIndex) ==
    LET nodeSize == nws(code, endIndex, node.start, node.end)
        nextContext == IF node.name # "" THEN Append(context, node.name) ELSE context
    IN IF nodeSize <= cfg.maxChunkSize \/ Len(node.children) = 0
       THEN [windows |-> <<Window(<<bareNode(node)>>, nodeSize, nextContext)>>, calls |-> {}]
       ELSE LET k == visitChildrenTraced(node.children, nextContext, cfg, code, endIndex)
                output == mergeAdjacentWindows(k.windows, cfg, code, endIndex)
            IN [windows |-> output,
                calls |-> k.calls \cup {[input |-> k.windows, output |-> output]}]

SplitByTree == ret # NoRet /\ ret.fn = "split" /\ domainOf(arg.code, arg.tree.end) # "unknown"

tracedSplit == visitTraced(arg.tree, <<FilePath>>, arg.cfg, arg.code, arg.tree.end)

callsOfSplit == tracedSplit.calls

\* the nodes of a list of windows, in the order of the list
RECURSIVE nodesOf(_)
nodesOf(windows) ==
    IF windows = <<>> THEN <<>> ELSE Head(windows).nodes \o nodesOf(Tail(windows))

endsWithComment(window) ==
    Len(window.nodes) > 0 /\ window.nodes[Len(window.nodes)].type = "comment"

\* C34: the windows returned by mergeAdjacentWindows hold the nodes of the
\* windows given, in the same order; none of them is empty and none but the
\* last ends with a comment node; so in the chunks of the file every comment
\* node that has a node after it lies in the chunk of that node.
C34_CommentsMoveForward ==
    SplitByTree =>
        LET traced == tracedSplit
            all == nodesOf(traced.windows)
        IN /\ Len(ret.chunks) = Len(traced.windows)
           /\ \A call \in traced.calls :
                 /\ nodesOf(call.output) = nodesOf(call.input)
                 /\ \A i \in 1..Len(call.output) : Len(call.output[i].nodes) > 0
                 /\ \A i \in 1..(Len(call.output) - 1) : ~endsWithComment(call.output[i])
           /\ \A p \in 1..(Len(all) - 1) :
                 all[p].type = "comment" =>
                    \E k \in 1..Len(ret.chunks) :
                       /\ ret.chunks[k].startIndex <= all[p].start
                       /\ all[p + 1].end <= ret.chunks[k].endIndex

\* a call that was given a window ending with a comment before another
\* window, and returned more than one window
C34_Witness ==
    /\ SplitByTree
    /\ \E call \in callsOfSplit :
          /\ Len(call.output) > 1
          /\ \E i \in 1..(Len(call.input) - 1) : endsWithComment(call.input[i])
          /\ \E j \in 1..Len(call.output) :
                /\ Len(call.output[j].nodes) > 1
                /\ call.output[j].nodes[1].type = "comment"

rawLength(window) == window.nodes[Len(window.nodes)].end - window.nodes[1].start

\* C40: every window returned by mergeAdjacentWindows with more than one
\* node has a size below 1.5 * maxChunkSize and a raw length of at most
\* maxRawChars.
C40_MergedWindowsWithinBudget ==
    SplitByTree =>
        \A call \in callsOfSplit :
           \A i \in 1..Len(call.output) :
              Len(call.output[i].nodes) > 1 =>
                 /\ 2 * call.output[i].size < 3 * arg.cfg.maxChunkSize
                 /\ rawLength(call.output[i]) <= arg.cfg.maxRawChars

----------------------------------------------------------------------------
(* Properties of the budget loop of ContextPacker.pack *)

\* the segments pack considers, in the order it considers them: the files
\* that have content by descending maximum chunk score, the top segments of
\* each by ascending rawStart
RECURSIVE candidateSegments(_, _, _, _)
candidateSegments(sortedFiles, byFile, contentMap, config) ==
    IF sortedFiles = <<>> THEN <<>>
    ELSE (IF contentMap[Head(sortedFiles)] = <<>> THEN <<>>
          ELSE topSegmentsOf(mergeAndSlice(byFile[Head(sortedFiles)],
                                           contentMap[Head(sortedFiles)]), config))
           \o candidateSegments(Tail(sortedFiles), byFile, contentMap, config)

candidatesOfCall ==
    IF Len(arg.chunks) = 0 THEN <<>>
    ELSE LET byFile == groupByFile(arg.chunks)
             files == fileOrder(arg.chunks, {})
             sortedFiles == sortDescending(files, [i \in 1..Len(files) |-> maxScore(byFile[files[i]])])
         IN candidateSegments(sortedFiles, byFile, arg.contentMap, arg.config)

\* the candidates before the first one that would take the total over the budget
RECURSIVE acceptedPrefix(_, _, _)
acceptedPrefix(candidates, totalChars, maxTotalChars) ==
    IF candidates = <<>> \/ totalChars + Len(Head(candidates).text) > maxTotalChars THEN <<>>
    ELSE <<Head(candidates)>> \o acceptedPrefix(Tail(candidates),
                                                 totalChars + Len(Head(candidates).text),
                                                 maxTotalChars)

RECURSIVE segmentsOfResult(_)
segmentsOfResult(result) ==
    IF result = <<>> THEN <<>> ELSE Head(result).segments \o segmentsOfResult(Tail(result))

PackOrdered ==
    ret.fn = "pack" =>
        /\ \A i, j \in 1..Len(ret.result) :
              i < j => maxScore(groupByFile(arg.chunks)[ret.result[i].filePath])
                          >= maxScore(groupByFile(arg.chunks)[ret.result[j].filePath])
        /\ \A k \in 1..Len(ret.result) :
              \A i, j \in 1..Len(ret.result[k].segments) :
                 i < j => ret.result[k].segments[i].rawStart <= ret.result[k].segments[j].rawStart

PackStopsAtFirstRejection ==
    ret.fn = "pack" =>
        segmentsOfResult(ret.result)
            = acceptedPrefix(candidatesOfCall, 0, arg.config.maxTotalChars)

\* C35: pack adds segments in order, files by descending maximum chunk score
\* and segments of a file by ascending rawStart, and adds no segment after the
\* first one that is rejected for the budget, from that file or a later one.
C35_NothingAfterRejection == PackOrdered /\ PackStopsAtFirstRejection

----------------------------------------------------------------------------
(* Properties of withLock's finally block *)

FnExited(p) == lk[p].pc = "done"

\* C36: when fn has returned or thrown after the lock was acquired and
\* withLock has handed over to its caller, the lock file does not record the
\* caller's pid any more, and the caller receives what fn returned or threw
C36_ReleasedOnEveryExit ==
    \A p \in Procs :
        FnExited(p) =>
            /\ lk[p].acquired
            /\ lk[p].outcome \in {"value", "error"}
            /\ lk[p].passed = lk[p].outcome
            /\ lockFile = NoLock \/ lockFile.pid # p

\* fn threw, the lock file the caller held is gone and the error reached the
\* caller, while the other process is waiting for the lock
C36_Witness ==
    \E p \in Procs :
        /\ FnExited(p)
        /\ lk[p].outcome = "error"
        /\ lk[p].passed = "error"
        /\ lockFile = NoLock
        /\ \E q \in Procs \ {p} : Acquiring(q)

----------------------------------------------------------------------------
(* Properties of the process-wide caches *)

\* C37: a query issued after a scan of its project has completed uses open
\* vector stores, in SearchService and in the GraphExpander, and a file-path
\* set equal to the paths of the files table as the last scan left it
C37_CachesFollowScan ==
    (CacheRunning /\ ret.last # NoQuery /\ ret.last.afterScan) =>
        /\ ret.last.searchStoreOpen
        /\ ret.last.expanded =>
              /\ ret.last.expanderStoreOpen
              /\ ret.last.allFilePaths = ret.last.files

----------------------------------------------------------------------------
(* Properties of batchUpsertFiles against upsertFile *)

UpsertDone == arg = [fn |-> "upserts"] /\ ret # NoRet /\ ret.calls > 0

\* C38: the table batchUpsertFiles(files) leaves is the table that
\* upsertFile, called for every file of the list in list order, leaves
C38_BatchEqualsEach == UpsertDone => ret.table = ret.each

----------------------------------------------------------------------------
(* Properties of files_fts *)

\* the paths of the files rows that hold content
pathsWithContent(r) == {p \in Paths : r[p] # NoRow /\ r[p].content # NULL}

\* C39: when a scan has completed, forced or not, the paths in files_fts are
\* the paths of the files rows with non-null content
C39_FtsMatchesFiles == ScanSucceeded => fts = pathsWithContent(rows)

====
